---- MODULE Spec2Model ----
(***************************************************************************)
(* The pg_catalog relations of datafusion-postgres                         *)
(* (src/datafusion-postgres/src/pg_catalog.rs): the four dynamic           *)
(* relations pg_namespace, pg_class, pg_attribute and pg_database, each    *)
(* rebuilt from the live catalog list on every execute().                  *)
(*                                                                         *)
(* The catalog list is the external, mutable hierarchy                     *)
(*     catalogs -> schemas -> tables -> fields.                            *)
(* A name is listed (catalog_names, schema_names, table_names) while its   *)
(* object is registered and resolves (catalog, schema, table) while it is  *)
(* registered; a fetch keeps the handle (Arc) of every object it resolved, *)
(* so a later deregistration does not take the object away from it.        *)
(* Objects keep their position in their parent: the position is the        *)
(* provider's enumeration order.                                           *)
(***************************************************************************)
EXTENDS Integers, Sequences, FiniteSets, TLC

(***************************************************************************)
(* Bounds of the model.                                                    *)
(***************************************************************************)
MaxCatalogs == 2
MaxSchemas == 2
\* execute() calls and changes of the catalog, together.
MaxEvents == 3
\* Rows of an argument column of a scalar function.
MaxRows == 2

(***************************************************************************)
(* Program constants.                                                      *)
(***************************************************************************)
NAMESPACE_BASE_OID == 10000
DATABASE_BASE_OID == 16384
PG_CATALOG_OID == 11
PUBLIC_OID == 2200
INFORMATION_SCHEMA_OID == 12
DEFAULT_OWNER == 10
UNKNOWN_TYPE_OID == 705

Relations == {"pg_namespace", "pg_class", "pg_attribute", "pg_database"}
Walkers == {"pg_class", "pg_attribute"}

\* The schema names pg_namespace emits as fixed rows and skips in its walk.
SystemSchemaNames == {"pg_catalog", "public", "information_schema"}

(***************************************************************************)
(* Integer widths: `as i16` keeps the low 16 bits, two's complement.       *)
(***************************************************************************)
AsI16(n) ==
    LET m == n % 65536
    IN  IF m >= 32768 THEN m - 65536 ELSE m

(***************************************************************************)
(* Sequence helpers.                                                       *)
(***************************************************************************)
RECURSIVE Concat(_)
Concat(ss) == IF ss = <<>> THEN <<>> ELSE Head(ss) \o Concat(Tail(ss))

Range(s) == {s[i] : i \in DOMAIN s}

\* Positions of the registered objects of a parent, in enumeration order.
Listed(objs) ==
    SelectSeq([i \in DOMAIN objs |-> i], LAMBDA i : objs[i].registered)

\* The position of the registered object called name, 0 when there is none
\* (the lookup returns None).
Resolve(objs, name) ==
    LET hits == {i \in DOMAIN objs : objs[i].name = name /\ objs[i].registered}
    IN  IF hits = {} THEN 0 ELSE CHOOSE i \in hits : \A j \in hits : i <= j

\* The names a listing call returns: those of the registered objects, in
\* enumeration order.
Names(objs) ==
    LET listed == Listed(objs)
    IN  [k \in DOMAIN listed |-> objs[listed[k]].name]

(***************************************************************************)
(* Native column types (arrow DataType), by their variant name.            *)
(***************************************************************************)
DataTypes ==
    {"Boolean", "Int8", "Int16", "Int32", "Int64", "Float32", "Float64",
     "Date32", "Date64", "Timestamp", "Utf8", "LargeUtf8", "Binary",
     "LargeBinary", "List", "LargeList", "FixedSizeList", "Duration"}

\* A variant that takes every type for a list.
IsArrayAlways(data_type) == TRUE

\* A variant that stores every type plain.
StoragePlain(data_type) == "p"

\* crate::datatypes::into_pg_type: the wire type oid of a native type, 0 for
\* a type it has no mapping for (it returns an error).  Its source is not part
\* of pg_catalog.rs; the oids are those of the wire protocol's type table.
into_pg_type(data_type) ==
    CASE data_type = "Boolean" -> 16
      [] data_type = "Int8" -> 18
      [] data_type = "Int16" -> 21
      [] data_type = "Int32" -> 23
      [] data_type = "Int64" -> 20
      [] data_type = "Float32" -> 700
      [] data_type = "Float64" -> 701
      [] data_type = "Date32" -> 1082
      [] data_type = "Date64" -> 1082
      [] data_type = "Timestamp" -> 1114
      [] data_type = "Utf8" -> 1043
      [] data_type = "LargeUtf8" -> 25
      [] data_type = "Binary" -> 17
      [] data_type = "LargeBinary" -> 17
      [] OTHER -> 0

\* A variant without the fallback to the unknown type.
PgTypeOidNoSentinel(data_type) == into_pg_type(data_type)

\* into_pg_type(..).unwrap_or(Type::UNKNOWN).oid()
PgTypeOid(data_type) ==
    IF into_pg_type(data_type) = 0 THEN UNKNOWN_TYPE_OID
    ELSE into_pg_type(data_type)

TypeLen(data_type) ==
    CASE data_type = "Int8" -> 1
      [] data_type = "Int16" -> 2
      [] data_type = "Int32" -> 4
      [] data_type = "Int64" -> 8
      [] data_type = "Float32" -> 4
      [] data_type = "Float64" -> 8
      [] data_type = "Boolean" -> 1
      [] data_type = "Date32" -> 4
      [] data_type = "Date64" -> 8
      [] data_type = "Timestamp" -> 8
      [] data_type \in {"Utf8", "LargeUtf8"} -> -1
      [] OTHER -> -1

IsArray(data_type) == data_type \in {"List", "LargeList", "FixedSizeList"}

ByVal(data_type) ==
    data_type \in {"Boolean", "Int8", "Int16", "Int32", "Float32", "Date32"}

Alignment(data_type) ==
    CASE data_type \in {"Int8", "Boolean"} -> "c"
      [] data_type = "Int16" -> "s"
      [] data_type \in {"Int32", "Float32", "Date32"} -> "i"
      [] data_type \in {"Int64", "Float64", "Date64", "Timestamp"} -> "d"
      [] OTHER -> "i"

Storage(data_type) ==
    IF data_type \in {"Utf8", "LargeUtf8", "Binary", "LargeBinary"} THEN "x"
    ELSE "p"

(***************************************************************************)
(* Rows.  Each row keeps the columns the relation's consumers read; the    *)
(* remaining columns are constants of the source and are left out.         *)
(***************************************************************************)
\* A variant that numbers the fields from 0.
AttNumZeroBased(column_idx) == AsI16(column_idx)

\* The attnum of the field at 0-based position column_idx.
AttNum(column_idx) == AsI16(column_idx + 1)

\* One pg_attribute row: the field at 0-based position column_idx of the
\* table that got table_oid.
AttributeRow(table_oid, column_idx, field) ==
    [attrelid |-> table_oid,
     attname |-> field.name,
     atttypid |-> PgTypeOid(field.data_type),
     attlen |-> TypeLen(field.data_type),
     attnum |-> AttNum(column_idx),
     attndims |-> IF IsArray(field.data_type) THEN 1 ELSE 0,
     attbyval |-> ByVal(field.data_type),
     attalign |-> Alignment(field.data_type),
     attstorage |-> Storage(field.data_type),
     attnotnull |-> ~field.nullable,
     atthasdef |-> FALSE,
     attgenerated |-> ""]

\* The pg_attribute rows of one resolved table, in declared field order.
AttributeRows(table_oid, table) ==
    [k \in 1..Len(table.fields) |-> AttributeRow(table_oid, k - 1, table.fields[k])]

\* The pg_class row of one resolved table.
ClassRow(table_oid, table_name, schema_oid, table) ==
    [oid |-> table_oid,
     relname |-> table_name,
     relnamespace |-> schema_oid,
     relfilenode |-> table_oid,
     relpages |-> 1,
     reltuples |-> 0,
     relallvisible |-> 0,
     relpersistence |-> "p",
     relkind |-> "r",
     relnatts |-> AsI16(Len(table.fields))]

NamespaceRow(oid, nspname) ==
    [oid |-> oid, nspname |-> nspname, nspowner |-> DEFAULT_OWNER]

\* The three rows pg_namespace pushes before it walks the catalogs.
SystemNamespaceRows ==
    << NamespaceRow(PG_CATALOG_OID, "pg_catalog"),
       NamespaceRow(PUBLIC_OID, "public"),
       NamespaceRow(INFORMATION_SCHEMA_OID, "information_schema") >>

DatabaseRow(oid, datname) ==
    [oid |-> oid, datname |-> datname, datdba |-> DEFAULT_OWNER, encoding |-> 6]

(***************************************************************************)
(* State.                                                                  *)
(*   catalog_list  the live catalog hierarchy (Arc<dyn CatalogProviderList>*)
(*                 shared by every table object)                           *)
(*   task[r]       the stream execute() returned for relation r: the       *)
(*                 position of its get_data future, that future's locals   *)
(*                 and the table lookups it has called and not yet got     *)
(*                 the answer of (outstanding)                             *)
(*   delivered[r]  history: the items the streams of r have yielded        *)
(*   mutations     history: how often the catalog was changed              *)
(*   session       the SessionContext: the scalar functions registered in  *)
(*                 it, and the last call made through it with its result   *)
(* Fields of a task that the source does not hold and that only the        *)
(* properties read: origin (the catalog position each row came from),      *)
(* assigned (every oid the counter handed out, with its position),         *)
(* missed (the listed names whose lookup returned None), snapshot (the     *)
(* catalog at execute) and clean (no change since execute).                *)
(***************************************************************************)
VARIABLES catalog_list, task, delivered, mutations, session

vars == <<catalog_list, task, delivered, mutations, session>>

NoTask ==
    [pc |-> "idle", next_oid |-> 0,
     catalog_names |-> <<>>, catalog |-> 0,
     schema_names |-> <<>>, schema |-> 0, schema_oid |-> 0,
     table_names |-> <<>>, outstanding |-> <<>>,
     rows |-> <<>>, origin |-> <<>>, assigned |-> <<>>, missed |-> <<>>,
     snapshot |-> <<>>, clean |-> TRUE]

\* A session in which no function is registered and nothing was called.
NoSession == [udfs |-> {}, call |-> [fn |-> "none"]]

Running(r) == task[r].pc \in {"start", "catalog", "schema", "table"}

\* No stream of r exists: none was created yet, or the last one has ended
\* or was dropped.
NoStream(r) == task[r].pc \in {"idle", "dropped"}

RECURSIVE SumOver(_, _)
SumOver(f, S) ==
    IF S = {} THEN 0
    ELSE LET x == CHOOSE y \in S : TRUE IN f[x] + SumOver(f, S \ {x})

\* The number of streams created so far.
Started ==
    SumOver([r \in Relations |->
                Len(delivered[r]) + (IF Running(r) THEN 1 ELSE 0)], Relations)

\* A variant whose counter does not advance.
NextOidStuck(oid) == oid

\* The number of execute() calls and catalog changes so far.
Events == Started + mutations

\* next_oid += 1
NextOid(oid) == oid + 1

\* A variant whose counter goes on from where the last stream of the
\* relation stopped.
FirstOidCarried(r) ==
    (IF r = "pg_database" THEN DATABASE_BASE_OID ELSE NAMESPACE_BASE_OID)
        + (IF delivered[r] = <<>> THEN 0
           ELSE Len(delivered[r][Len(delivered[r])].assigned))

\* A variant whose counter starts where the counter of a stream of another
\* relation stands.
FirstOidShared(r) ==
    LET others == {q \in Relations \ {r} : task[q].next_oid # 0}
    IN  IF others = {}
        THEN (IF r = "pg_database" THEN DATABASE_BASE_OID ELSE NAMESPACE_BASE_OID)
        ELSE task[CHOOSE q \in others : TRUE].next_oid

\* The value next_oid is initialised with.
FirstOid(r) ==
    IF r = "pg_database" THEN DATABASE_BASE_OID ELSE NAMESPACE_BASE_OID

\* The item a finished future hands to the stream.
Batch(t) ==
    [kind |-> "batch", rows |-> t.rows, origin |-> t.origin,
     assigned |-> t.assigned, missed |-> t.missed,
     snapshot |-> t.snapshot, clean |-> t.clean]

\* `?` on a failed lookup: the future returns the error and its vectors are
\* dropped.
Failure(t) ==
    [kind |-> "error", rows |-> <<>>, origin |-> <<>>,
     assigned |-> t.assigned, missed |-> t.missed,
     snapshot |-> t.snapshot, clean |-> t.clean]

\* Leaving an exhausted inner loop is no call on the catalog: a task rests
\* only where its next step is a catalog call or the end of get_data.
Settle(t) ==
    IF t.pc = "table" /\ t.table_names = <<>> THEN
        IF t.schema_names = <<>> THEN [t EXCEPT !.pc = "catalog"]
        ELSE [t EXCEPT !.pc = "schema"]
    ELSE IF t.pc = "schema" /\ t.schema_names = <<>> THEN [t EXCEPT !.pc = "catalog"]
    ELSE t

(***************************************************************************)
(* execute(): a new stream over a new get_data future.  Nothing of an      *)
(* earlier call is kept.                                                   *)
(***************************************************************************)
Execute(r) ==
    /\ NoStream(r)
    /\ task' = [task EXCEPT ![r] =
                    [NoTask EXCEPT !.pc = "start", !.snapshot = catalog_list]]
    /\ UNCHANGED <<catalog_list, delivered, mutations, session>>

(***************************************************************************)
(* pg_database: get_data makes one call, catalog_names().                  *)
(***************************************************************************)
RECURSIVE DatabaseLoop(_, _, _)
DatabaseLoop(names, oid, acc) ==
    IF names = <<>> THEN [rows |-> acc, next_oid |-> oid]
    ELSE DatabaseLoop(Tail(names), NextOid(oid),
                      Append(acc, DatabaseRow(oid, Head(names))))

\* A variant that pushes the "postgres" row without looking.
WithPostgresAlways(loop) ==
    Append(loop.rows, DatabaseRow(loop.next_oid, "postgres"))

\* The rows after the loop: a "postgres" row is pushed when no row has that
\* name; it takes next_oid.
WithPostgres(loop) ==
    IF \E i \in DOMAIN loop.rows : loop.rows[i].datname = "postgres"
    THEN loop.rows
    ELSE Append(loop.rows, DatabaseRow(loop.next_oid, "postgres"))

DatabaseGetData ==
    LET r == "pg_database"
        t == task[r]
        names == Names(catalog_list)
        loop == DatabaseLoop(names, FirstOid(r), <<>>)
        rows == WithPostgres(loop)
        done == [t EXCEPT !.pc = "yielded",
                          !.next_oid = loop.next_oid,
                          !.rows = rows,
                          !.origin = [k \in DOMAIN rows |->
                                        IF k <= Len(names)
                                        THEN <<Resolve(catalog_list, names[k])>>
                                        ELSE <<0>>],
                          !.assigned = [k \in DOMAIN rows |->
                                          [kind |-> "database", oid |-> rows[k].oid,
                                           at |-> <<k>>]]]
    IN  /\ t.pc = "start"
        /\ task' = [task EXCEPT ![r] = done]
        /\ delivered' = [delivered EXCEPT ![r] = Append(@, Batch(done))]
        /\ UNCHANGED <<catalog_list, mutations, session>>

(***************************************************************************)
(* pg_namespace, pg_class, pg_attribute: the start of get_data, up to and  *)
(* including the call catalog_names().                                     *)
(***************************************************************************)
ListCatalogs(r) ==
    /\ r # "pg_database"
    /\ task[r].pc = "start"
    /\ task' = [task EXCEPT ![r] =
                    [@ EXCEPT !.pc = "catalog",
                              !.next_oid = FirstOid(r),
                              !.rows = IF r = "pg_namespace"
                                       THEN SystemNamespaceRows ELSE <<>>,
                              !.origin = IF r = "pg_namespace"
                                         THEN << <<0, 0>>, <<0, 0>>, <<0, 0>> >>
                                         ELSE <<>>,
                              !.catalog_names = Names(catalog_list)]]
    /\ UNCHANGED <<catalog_list, delivered, mutations, session>>

(***************************************************************************)
(* pg_namespace: one catalog of the outer loop.  catalog(name) and         *)
(* schema_names() are the only calls; the schemas are not resolved.        *)
(***************************************************************************)
\* A variant without the skip.
RECURSIVE NamespaceLoopNoSkip(_, _, _)
NamespaceLoopNoSkip(names, oid, acc) ==
    IF names = <<>> THEN [rows |-> acc, next_oid |-> oid]
    ELSE NamespaceLoopNoSkip(Tail(names), oid + 1,
                             Append(acc, NamespaceRow(oid, Head(names))))

\* The inner loop over schema_names: a system schema name is skipped
\* (continue), every other name takes next_oid.
RECURSIVE NamespaceLoop(_, _, _)
NamespaceLoop(names, oid, acc) ==
    IF names = <<>> THEN [rows |-> acc, next_oid |-> oid]
    ELSE IF Head(names) \in SystemSchemaNames
         THEN NamespaceLoop(Tail(names), oid, acc)
         ELSE NamespaceLoop(Tail(names), NextOid(oid),
                            Append(acc, NamespaceRow(oid, Head(names))))

NamespaceCatalog ==
    LET r == "pg_namespace"
        t == task[r]
        ci == Resolve(catalog_list, Head(t.catalog_names))
        schemas == catalog_list[ci].schemas
        loop == NamespaceLoop(Names(schemas), t.next_oid, <<>>)
    IN  /\ t.pc = "catalog"
        /\ t.catalog_names # <<>>
        /\ task' = [task EXCEPT ![r] =
              IF ci = 0
              THEN [t EXCEPT !.catalog_names = Tail(@)]
              ELSE [t EXCEPT
                      !.catalog_names = Tail(@),
                      !.catalog = ci,
                      !.next_oid = loop.next_oid,
                      !.rows = @ \o loop.rows,
                      !.origin = @ \o [k \in DOMAIN loop.rows |->
                                         <<ci, Resolve(schemas, loop.rows[k].nspname)>>],
                      !.assigned = @ \o [k \in DOMAIN loop.rows |->
                                           [kind |-> "schema", oid |-> loop.rows[k].oid,
                                            at |-> <<ci, Resolve(schemas, loop.rows[k].nspname)>>]]]]
        /\ UNCHANGED <<catalog_list, delivered, mutations, session>>

(***************************************************************************)
(* pg_class and pg_attribute share the walk; they differ in the rows a     *)
(* resolved table adds.                                                    *)
(***************************************************************************)
\* catalog_list.catalog(name), then catalog.schema_names().
WalkCatalog(r) ==
    LET t == task[r]
        ci == Resolve(catalog_list, Head(t.catalog_names))
    IN  /\ r \in Walkers
        /\ t.pc = "catalog"
        /\ t.catalog_names # <<>>
        /\ task' = [task EXCEPT ![r] =
              IF ci = 0
              THEN [t EXCEPT !.catalog_names = Tail(@)]
              ELSE Settle([t EXCEPT
                      !.pc = "schema",
                      !.catalog_names = Tail(@),
                      !.catalog = ci,
                      !.schema_names = Names(catalog_list[ci].schemas)])]
        /\ UNCHANGED <<catalog_list, delivered, mutations, session>>

\* catalog.schema(name): None skips the name and takes no oid; Some takes
\* next_oid for the schema, then schema.table_names().
WalkSchema(r) ==
    LET t == task[r]
        schemas == catalog_list[t.catalog].schemas
        si == Resolve(schemas, Head(t.schema_names))
    IN  /\ r \in Walkers
        /\ t.pc = "schema"
        /\ task' = [task EXCEPT ![r] =
              IF si = 0
              THEN Settle([t EXCEPT !.schema_names = Tail(@),
                                    !.missed = Append(@, [kind |-> "schema",
                                                 name |-> Head(t.schema_names)])])
              ELSE Settle([t EXCEPT
                      !.pc = "table",
                      !.schema_names = Tail(@),
                      !.schema = si,
                      !.schema_oid = t.next_oid,
                      !.next_oid = NextOid(@),
                      !.assigned = Append(@, [kind |-> "schema", oid |-> t.next_oid,
                                              at |-> <<t.catalog, si>>]),
                      !.table_names = Names(schemas[si].tables)])]
        /\ UNCHANGED <<catalog_list, delivered, mutations, session>>

\* A variant that takes a provider's error for a missing table.
LookupTableSwallowsError(tables, name) ==
    LET ti == Resolve(tables, name)
    IN  IF ti = 0 THEN [kind |-> "none", ti |-> 0]
        ELSE IF tables[ti].fails THEN [kind |-> "none", ti |-> ti]
        ELSE [kind |-> "some", ti |-> ti]

\* What schema.table(name).await returns: an error of the provider, None
\* for a name that is no longer registered, or the table.
LookupTable(tables, name) ==
    LET ti == Resolve(tables, name)
    IN  IF ti = 0 THEN [kind |-> "none", ti |-> 0]
        ELSE IF tables[ti].fails THEN [kind |-> "err", ti |-> ti]
        ELSE [kind |-> "some", ti |-> ti]

\* The rows a resolved table adds to the relation.
TableRows(r, table_oid, table_name, schema_oid, table) ==
    IF r = "pg_class"
    THEN << ClassRow(table_oid, table_name, schema_oid, table) >>
    ELSE AttributeRows(table_oid, table)

\* A variant in which a name that resolves to none gives its oid back.
AfterLookupNoneIsFree(r, t, found, table_oid, added, at) ==
    LET took == [t EXCEPT !.table_names = Tail(@),
                          !.next_oid = NextOid(@),
                          !.assigned = Append(@, [kind |-> "table", oid |-> table_oid,
                                                  at |-> at])]
    IN  IF found.kind = "err" THEN [took EXCEPT !.pc = "yielded"]
        ELSE IF found.kind = "none"
             THEN Settle([t EXCEPT !.table_names = Tail(@),
                                   !.missed = Append(@, [kind |-> "table",
                                                         name |-> Head(t.table_names)])])
        ELSE Settle([took EXCEPT !.rows = @ \o added,
                                 !.origin = @ \o [k \in DOMAIN added |-> at]])

\* The future after the table lookup returned found: `?` returns an error
\* at once, None adds nothing, Some(table) adds the table's rows.
AfterLookup(r, t, found, table_oid, added, at) ==
    LET took == [t EXCEPT !.table_names = Tail(@),
                          !.next_oid = NextOid(@),
                          !.assigned = Append(@, [kind |-> "table", oid |-> table_oid,
                                                  at |-> at])]
    IN  IF found.kind = "err" THEN [took EXCEPT !.pc = "yielded"]
        ELSE IF found.kind = "none"
             THEN Settle([took EXCEPT !.missed = Append(@, [kind |-> "table",
                                                   name |-> Head(t.table_names)])])
        ELSE Settle([took EXCEPT !.rows = @ \o added,
                                 !.origin = @ \o [k \in DOMAIN added |-> at]])

\* One table name of the inner loop: it takes next_oid, then the lookup is
\* awaited.
WalkTable(r) ==
    LET t == task[r]
        name == Head(t.table_names)
        tables == catalog_list[t.catalog].schemas[t.schema].tables
        table_oid == t.next_oid
        found == LookupTable(tables, name)
        at == <<t.catalog, t.schema, found.ti>>
        added == IF found.kind = "some"
                 THEN TableRows(r, table_oid, name, t.schema_oid, tables[found.ti])
                 ELSE <<>>
        after == AfterLookup(r, t, found, table_oid, added, at)
    IN  /\ r \in Walkers
        /\ t.pc = "table"
        /\ task' = [task EXCEPT ![r] = after]
        /\ delivered' = IF found.kind = "err"
                        THEN [delivered EXCEPT ![r] = Append(@, Failure(after))]
                        ELSE delivered
        /\ UNCHANGED <<catalog_list, mutations, session>>

(***************************************************************************)
(* The table lookup in two steps, for the schedules in which the           *)
(* provider's future is pending for a while: the call                      *)
(* schema.table(name), and the return of its .await.                       *)
(***************************************************************************)
\* A variant that calls the lookups of all table names of the schema at
\* once.
IssuedAll(names) == names

\* The lookups the loop body calls before it awaits: the one of the name at
\* hand.
Issued(names) == << Head(names) >>

IssueLookup(r) ==
    /\ r \in Walkers
    /\ task[r].pc = "table"
    /\ task[r].outstanding = <<>>
    /\ task' = [task EXCEPT ![r].outstanding = Issued(task[r].table_names)]
    /\ UNCHANGED <<catalog_list, delivered, mutations, session>>

\* The answer arrives: from here on as in WalkTable.
CompleteLookup(r) ==
    LET t == [task[r] EXCEPT !.outstanding = Tail(@)]
        name == Head(task[r].outstanding)
        tables == catalog_list[t.catalog].schemas[t.schema].tables
        table_oid == t.next_oid
        found == LookupTable(tables, name)
        at == <<t.catalog, t.schema, found.ti>>
        added == IF found.kind = "some"
                 THEN TableRows(r, table_oid, name, t.schema_oid, tables[found.ti])
                 ELSE <<>>
        after == AfterLookup(r, t, found, table_oid, added, at)
    IN  /\ r \in Walkers
        /\ task[r].pc = "table"
        /\ task[r].outstanding # <<>>
        /\ task' = [task EXCEPT ![r] = after]
        /\ delivered' = IF found.kind = "err"
                        THEN [delivered EXCEPT ![r] = Append(@, Failure(after))]
                        ELSE delivered
        /\ UNCHANGED <<catalog_list, mutations, session>>

(***************************************************************************)
(* The end of get_data: RecordBatch::try_new over the vectors; the stream  *)
(* yields the batch.                                                       *)
(***************************************************************************)
Finish(r) ==
    /\ r # "pg_database"
    /\ task[r].pc = "catalog"
    /\ task[r].catalog_names = <<>>
    /\ task' = [task EXCEPT ![r] = [@ EXCEPT !.pc = "yielded"]]
    /\ delivered' = [delivered EXCEPT ![r] = Append(@, Batch(task[r]))]
    /\ UNCHANGED <<catalog_list, mutations, session>>

\* stream::once: after its one item the stream ends and is dropped with
\* everything the future held.
StreamEnd(r) ==
    /\ task[r].pc = "yielded"
    /\ task' = [task EXCEPT ![r] = NoTask]
    /\ UNCHANGED <<catalog_list, delivered, mutations, session>>

\* A variant in which a dropped stream hands out what its future had built.
DroppedPartial(t) == << Batch(t) >>

\* The items a stream yields when it is dropped before its future finished:
\* the future and its vectors are dropped with it.
Dropped(t) == <<>>

\* The consumer drops the stream of r while get_data is still pending.  Of
\* the task only history is left: the oids its counter had handed out and
\* the catalog at execute.
Cancel(r) ==
    /\ Running(r)
    /\ task' = [task EXCEPT ![r] = [NoTask EXCEPT !.pc = "dropped",
                                                  !.assigned = task[r].assigned,
                                                  !.snapshot = task[r].snapshot]]
    /\ delivered' = [delivered EXCEPT ![r] = @ \o Dropped(task[r])]
    /\ UNCHANGED <<catalog_list, mutations, session>>

(***************************************************************************)
(* The catalog's owner registers or deregisters an object.  Every stream   *)
(* in flight has then seen a change.                                       *)
(***************************************************************************)
Touched ==
    [r \in Relations |->
        IF Running(r) THEN [task[r] EXCEPT !.clean = FALSE] ELSE task[r]]

SetCatalogRegistered(ci) ==
    /\ Events < MaxEvents
    /\ catalog_list' = [catalog_list EXCEPT ![ci].registered = ~@]
    /\ mutations' = mutations + 1
    /\ task' = Touched
    /\ UNCHANGED <<delivered, session>>

SetSchemaRegistered(ci, si) ==
    /\ Events < MaxEvents
    /\ catalog_list' = [catalog_list EXCEPT ![ci].schemas[si].registered = ~@]
    /\ mutations' = mutations + 1
    /\ task' = Touched
    /\ UNCHANGED <<delivered, session>>

SetTableRegistered(ci, si, ti) ==
    /\ Events < MaxEvents
    /\ catalog_list' = [catalog_list EXCEPT
                          ![ci].schemas[si].tables[ti].registered = ~@]
    /\ mutations' = mutations + 1
    /\ task' = Touched
    /\ UNCHANGED <<delivered, session>>

(***************************************************************************)
(* Catalogs.                                                               *)
(***************************************************************************)
Field(name, data_type, nullable) ==
    [name |-> name, data_type |-> data_type, nullable |-> nullable]

Table(name, fields) ==
    [name |-> name, registered |-> TRUE, fails |-> FALSE, fields |-> fields]

Schema(name, tables) == [name |-> name, registered |-> TRUE, tables |-> tables]

Catalog(name, schemas) == [name |-> name, registered |-> TRUE, schemas |-> schemas]

T1 == Table("t1", << Field("a", "Int32", FALSE), Field("b", "LargeUtf8", FALSE) >>)
T2 == Table("t2", << Field("x", "Int64", TRUE) >>)
T0 == Table("t0", <<>>)
\* A table whose provider answers the lookup with an error.
TFail == [Table("t3", <<>>) EXCEPT !.fails = TRUE]
\* A table that exists but is not registered yet.
TLater == [Table("t4", << Field("y", "Boolean", TRUE) >>) EXCEPT !.registered = FALSE]
\* pg_catalog.pg_namespace, with the fields PgNamespaceTable::new declares.
TPgNamespace ==
    Table("pg_namespace",
          << Field("oid", "Int32", FALSE), Field("nspname", "Utf8", FALSE),
             Field("nspowner", "Int32", FALSE), Field("nspacl", "Utf8", TRUE),
             Field("options", "Utf8", TRUE) >>)

\* The catalogs the interleaved specification starts from.
ExampleCatalogs ==
    { << Catalog("c1", << Schema("s1", << T1 >>) >>) >>,
      << Catalog("datafusion",
                 << Schema("public", << T1, TLater >>),
                    Schema("pg_catalog", << TPgNamespace >>) >>) >>,
      << Catalog("c1", << Schema("s1", << T2, TFail >>),
                          Schema("s2", << T0 >>) >>),
         [Catalog("postgres", <<>>) EXCEPT !.registered = FALSE] >>,
      << Catalog("c1", << Schema("s1", << T2 >>), Schema("s2", << T1 >>) >>) >> }

\* A table with one field more than attnum's 16 bits can number.
I16_MAX == 32767

TWide ==
    Table("wide", [k \in 1..(I16_MAX + 1) |-> Field(ToString(k), "Int32", FALSE)])

WideCatalogs ==
    { << Catalog("datafusion", << Schema("public", << T2, TWide >>) >>) >> }

\* A table with one field more than 16 bits can count: its field count
\* cast to i16 is 1.
TWrapped ==
    Table("wrapped",
          [k \in 1..(2 * (I16_MAX + 1) + 1) |-> Field(ToString(k), "Int32", FALSE)])

WrappedCatalogs ==
    { << Catalog("datafusion", << Schema("public", << T2, TWrapped >>) >>) >> }

\* The catalogs the serial specification starts from: every list of
\* catalogs with distinct names, each with a list of schemas with distinct
\* names, of at most MaxSchemas schemas in all; the tables of a schema go
\* with its name.
CatalogPool == {"c1", "postgres"}
SchemaPool == {"public", "s1", "pg_catalog", "information_schema"}

TablesOf(schema_name) ==
    CASE schema_name = "s1" -> << T1 >>
      [] schema_name = "public" -> << T2, T0 >>
      [] schema_name = "pg_catalog" -> << TPgNamespace >>
      [] OTHER -> <<>>

\* The sequences of distinct elements of S of length at most n.
RECURSIVE DistinctSeqs(_, _)
DistinctSeqs(S, n) ==
    IF n = 0 \/ S = {} THEN { <<>> }
    ELSE { <<>> } \cup
         UNION { { <<x>> \o rest : rest \in DistinctSeqs(S \ {x}, n - 1) } : x \in S }

SchemaLists ==
    { [k \in DOMAIN names |-> Schema(names[k], TablesOf(names[k]))] :
        names \in DistinctSeqs(SchemaPool, MaxSchemas) }

RECURSIVE CountSchemas(_)
CountSchemas(cl) ==
    IF cl = <<>> THEN 0 ELSE Len(Head(cl).schemas) + CountSchemas(Tail(cl))

RECURSIVE CatalogListsOver(_)
CatalogListsOver(names) ==
    IF names = <<>> THEN { <<>> }
    ELSE { << Catalog(Head(names), sl) >> \o rest :
             sl \in SchemaLists, rest \in CatalogListsOver(Tail(names)) }

GeneratedCatalogs ==
    { cl \in UNION { CatalogListsOver(names) :
                        names \in DistinctSeqs(CatalogPool, MaxCatalogs) } :
        CountSchemas(cl) <= MaxSchemas }

(***************************************************************************)
(* Specifications.                                                         *)
(***************************************************************************)
InitTasks ==
    /\ task = [r \in Relations |-> NoTask]
    /\ delivered = [r \in Relations |-> <<>>]
    /\ mutations = 0
    /\ session = NoSession

Init ==
    /\ catalog_list \in ExampleCatalogs
    /\ InitTasks

Next ==
    \/ \E r \in Relations : Events < MaxEvents /\ Execute(r)
    \/ DatabaseGetData
    \/ \E r \in Relations : ListCatalogs(r)
    \/ NamespaceCatalog
    \/ \E r \in Relations : WalkCatalog(r)
    \/ \E r \in Relations : WalkSchema(r)
    \/ \E r \in Relations : WalkTable(r)
    \/ \E r \in Relations : Finish(r)
    \/ \E r \in Relations : StreamEnd(r)
    \/ \E ci \in DOMAIN catalog_list : SetCatalogRegistered(ci)
    \/ \E ci \in DOMAIN catalog_list :
          \E si \in DOMAIN catalog_list[ci].schemas : SetSchemaRegistered(ci, si)
    \/ \E ci \in DOMAIN catalog_list :
          \E si \in DOMAIN catalog_list[ci].schemas :
             \E ti \in DOMAIN catalog_list[ci].schemas[si].tables :
                SetTableRegistered(ci, si, ti)

\* The streams of the relations run on any worker, interleaved with each
\* other and with changes of the catalog.
Spec == Init /\ [][Next]_vars

\* One stream at a time over a catalog nobody changes.
InitSerial ==
    /\ catalog_list \in GeneratedCatalogs
    /\ InitTasks

Alone(r) == \A q \in Relations \ {r} : NoStream(q)

NextSerial ==
    \/ \E r \in Relations : Events < MaxEvents /\ Alone(r) /\ Execute(r)
    \/ DatabaseGetData
    \/ \E r \in Relations : ListCatalogs(r)
    \/ NamespaceCatalog
    \/ \E r \in Relations : WalkCatalog(r)
    \/ \E r \in Relations : WalkSchema(r)
    \/ \E r \in Relations : WalkTable(r)
    \/ \E r \in Relations : Finish(r)
    \/ \E r \in Relations : StreamEnd(r)

SpecSerial == InitSerial /\ [][NextSerial]_vars

\* The same over a catalog with a table of 32768 fields.
InitWide ==
    /\ catalog_list \in WideCatalogs
    /\ InitTasks

SpecWide == InitWide /\ [][NextSerial]_vars

\* The same over a catalog with a table of 65537 fields.
InitWrapped ==
    /\ catalog_list \in WrappedCatalogs
    /\ InitTasks

SpecWrapped == InitWrapped /\ [][NextSerial]_vars

\* A catalog whose first table has a first column c of the given type and
\* nullability, a second column k and a second table t2 next to it.
TypedCatalog(data_type, nullable) ==
    << Catalog("datafusion",
               << Schema("public",
                         << Table("t", << Field("c", data_type, nullable),
                                          Field("k", "Int32", FALSE) >>),
                            T2 >>) >>) >>

TypeCatalogs == { TypedCatalog(dt, n) : dt \in DataTypes, n \in BOOLEAN }

\* One stream at a time over a catalog with a column of any native type.
InitTypes ==
    /\ catalog_list \in TypeCatalogs
    /\ InitTasks

SpecTypes == InitTypes /\ [][NextSerial]_vars

\* n schemas without tables, named "1" .. "n".
ManySchemas(n) == [k \in 1..n |-> Schema(ToString(k), <<>>)]

\* c catalogs of n schemas each, named "1" .. "c".
ManyCatalogs(c, n) == [i \in 1..c |-> Catalog(ToString(i), ManySchemas(n))]

\* The number of oids from the base of the dynamic counter up to the base
\* of the database counter: 6384 = 336 * 19.
ManyCount == DATABASE_BASE_OID - NAMESPACE_BASE_OID

\* A catalog list of ManyCount schemas and one more.
FullCatalogs ==
    { ManyCatalogs(ManyCount \div 19, 19) \o << Catalog("last", ManySchemas(1)) >> }

\* One pg_namespace fetch over that catalog list.
InitMany ==
    /\ catalog_list \in FullCatalogs
    /\ InitTasks

NextMany ==
    \/ (Started = 0 /\ Execute("pg_namespace"))
    \/ ListCatalogs("pg_namespace")
    \/ NamespaceCatalog
    \/ Finish("pg_namespace")
    \/ StreamEnd("pg_namespace")

SpecMany == InitMany /\ [][NextMany]_vars

(***************************************************************************)
(* get_data as one uninterrupted run over a catalog list cl that nobody    *)
(* changes: the item a fetch yields when nothing else runs.                *)
(***************************************************************************)
\* The loop over the table names of one resolved schema.
RECURSIVE GetDataTables(_, _, _, _, _, _)
GetDataTables(r, tables, names, schema_oid, oid, acc) ==
    IF names = <<>> THEN [kind |-> "batch", rows |-> acc, next_oid |-> oid]
    ELSE LET found == LookupTable(tables, Head(names))
         IN  IF found.kind = "err"
             THEN [kind |-> "error", rows |-> <<>>, next_oid |-> NextOid(oid)]
             ELSE GetDataTables(r, tables, Tail(names), schema_oid, NextOid(oid),
                      IF found.kind = "some"
                      THEN acc \o TableRows(r, oid, Head(names), schema_oid,
                                            tables[found.ti])
                      ELSE acc)

\* The loop over the schema names of one resolved catalog.
RECURSIVE GetDataSchemas(_, _, _, _, _)
GetDataSchemas(r, schemas, names, oid, acc) ==
    IF names = <<>> THEN [kind |-> "batch", rows |-> acc, next_oid |-> oid]
    ELSE LET si == Resolve(schemas, Head(names))
         IN  IF si = 0 THEN GetDataSchemas(r, schemas, Tail(names), oid, acc)
             ELSE LET inner == GetDataTables(r, schemas[si].tables,
                                             Names(schemas[si].tables),
                                             oid, NextOid(oid), acc)
                  IN  IF inner.kind = "error" THEN inner
                      ELSE GetDataSchemas(r, schemas, Tail(names),
                                          inner.next_oid, inner.rows)

\* The loop over the catalog names; pg_namespace numbers the schema names
\* of a catalog, pg_class and pg_attribute walk them.
RECURSIVE GetDataCatalogs(_, _, _, _, _)
GetDataCatalogs(r, cl, names, oid, acc) ==
    IF names = <<>> THEN [kind |-> "batch", rows |-> acc, next_oid |-> oid]
    ELSE LET ci == Resolve(cl, Head(names))
         IN  IF ci = 0 THEN GetDataCatalogs(r, cl, Tail(names), oid, acc)
             ELSE LET inner ==
                        IF r = "pg_namespace"
                        THEN LET loop == NamespaceLoop(Names(cl[ci].schemas), oid, <<>>)
                             IN  [kind |-> "batch", rows |-> acc \o loop.rows,
                                  next_oid |-> loop.next_oid]
                        ELSE GetDataSchemas(r, cl[ci].schemas,
                                            Names(cl[ci].schemas), oid, acc)
                  IN  IF inner.kind = "error" THEN inner
                      ELSE GetDataCatalogs(r, cl, Tail(names),
                                           inner.next_oid, inner.rows)

GetData(r, cl) ==
    IF r = "pg_database"
    THEN [kind |-> "batch",
          rows |-> WithPostgres(DatabaseLoop(Names(cl), FirstOid(r), <<>>))]
    ELSE LET run == GetDataCatalogs(r, cl, Names(cl), FirstOid(r),
                                    IF r = "pg_namespace"
                                    THEN SystemNamespaceRows ELSE <<>>)
         IN  [kind |-> run.kind, rows |-> run.rows]

\* The walks of pg_class and pg_attribute with the table lookup in two
\* steps, interleaved with each other and with tables that come and go.
NextLookup ==
    \/ \E r \in Walkers : Events < MaxEvents /\ Execute(r)
    \/ \E r \in Walkers : ListCatalogs(r)
    \/ \E r \in Walkers : WalkCatalog(r)
    \/ \E r \in Walkers : WalkSchema(r)
    \/ \E r \in Walkers : IssueLookup(r)
    \/ \E r \in Walkers : CompleteLookup(r)
    \/ \E r \in Walkers : Finish(r)
    \/ \E r \in Walkers : StreamEnd(r)
    \/ \E ci \in DOMAIN catalog_list :
          \E si \in DOMAIN catalog_list[ci].schemas :
             \E ti \in DOMAIN catalog_list[ci].schemas[si].tables :
                SetTableRegistered(ci, si, ti)

SpecLookup == Init /\ [][NextLookup]_vars

\* One stream at a time, each either polled to its end or dropped on the
\* way.
NextCancel ==
    \/ NextSerial
    \/ \E r \in Relations : Cancel(r)

SpecCancel == Init /\ [][NextCancel]_vars

(***************************************************************************)
(* The pg_catalog schema provider, setup_pg_catalog and the scalar          *)
(* functions.                                                              *)
(***************************************************************************)
\* The declared columns of pg_type.
PgTypeFields ==
    << Field("oid", "Int32", FALSE), Field("typname", "Utf8", FALSE),
       Field("typnamespace", "Int32", FALSE),
       Field("typowner", "Int32", FALSE), Field("typlen", "Int16", FALSE),
       Field("typbyval", "Boolean", FALSE), Field("typtype", "Utf8", FALSE),
       Field("typcategory", "Utf8", FALSE),
       Field("typispreferred", "Boolean", FALSE),
       Field("typisdefined", "Boolean", FALSE),
       Field("typdelim", "Utf8", FALSE), Field("typrelid", "Int32", FALSE),
       Field("typsubscript", "Int32", FALSE),
       Field("typelem", "Int32", FALSE), Field("typarray", "Int32", FALSE),
       Field("typinput", "Int32", FALSE), Field("typoutput", "Int32", FALSE),
       Field("typreceive", "Int32", FALSE), Field("typsend", "Int32", FALSE),
       Field("typmodin", "Int32", FALSE), Field("typmodout", "Int32", FALSE),
       Field("typanalyze", "Int32", FALSE), Field("typalign", "Utf8", FALSE),
       Field("typstorage", "Utf8", FALSE),
       Field("typnotnull", "Boolean", FALSE),
       Field("typbasetype", "Int32", FALSE),
       Field("typtypmod", "Int32", FALSE), Field("typndims", "Int32", FALSE),
       Field("typcollation", "Int32", FALSE),
       Field("typdefaultbin", "Utf8", TRUE),
       Field("typdefault", "Utf8", TRUE), Field("typacl", "Utf8", TRUE) >>

\* The declared columns of pg_am.
PgAmFields ==
    << Field("oid", "Int32", FALSE), Field("amname", "Utf8", FALSE),
       Field("amhandler", "Int32", FALSE), Field("amtype", "Utf8", FALSE),
       Field("amstrategies", "Int32", FALSE),
       Field("amsupport", "Int32", FALSE),
       Field("amcanorder", "Boolean", FALSE),
       Field("amcanorderbyop", "Boolean", FALSE),
       Field("amcanbackward", "Boolean", FALSE),
       Field("amcanunique", "Boolean", FALSE),
       Field("amcanmulticol", "Boolean", FALSE),
       Field("amoptionalkey", "Boolean", FALSE),
       Field("amsearcharray", "Boolean", FALSE),
       Field("amsearchnulls", "Boolean", FALSE),
       Field("amstorage", "Boolean", FALSE),
       Field("amclusterable", "Boolean", FALSE),
       Field("ampredlocks", "Boolean", FALSE),
       Field("amcanparallel", "Boolean", FALSE),
       Field("amcanbeginscan", "Boolean", FALSE),
       Field("amcanmarkpos", "Boolean", FALSE),
       Field("amcanfetch", "Boolean", FALSE),
       Field("amkeytype", "Int32", FALSE) >>

\* The declared columns of pg_class.
PgClassFields ==
    << Field("oid", "Int32", FALSE), Field("relname", "Utf8", FALSE),
       Field("relnamespace", "Int32", FALSE),
       Field("reltype", "Int32", FALSE), Field("reloftype", "Int32", TRUE),
       Field("relowner", "Int32", FALSE), Field("relam", "Int32", FALSE),
       Field("relfilenode", "Int32", FALSE),
       Field("reltablespace", "Int32", FALSE),
       Field("relpages", "Int32", FALSE),
       Field("reltuples", "Float64", FALSE),
       Field("relallvisible", "Int32", FALSE),
       Field("reltoastrelid", "Int32", FALSE),
       Field("relhasindex", "Boolean", FALSE),
       Field("relisshared", "Boolean", FALSE),
       Field("relpersistence", "Utf8", FALSE),
       Field("relkind", "Utf8", FALSE), Field("relnatts", "Int16", FALSE),
       Field("relchecks", "Int16", FALSE),
       Field("relhasrules", "Boolean", FALSE),
       Field("relhastriggers", "Boolean", FALSE),
       Field("relhassubclass", "Boolean", FALSE),
       Field("relrowsecurity", "Boolean", FALSE),
       Field("relforcerowsecurity", "Boolean", FALSE),
       Field("relispopulated", "Boolean", FALSE),
       Field("relreplident", "Utf8", FALSE),
       Field("relispartition", "Boolean", FALSE),
       Field("relrewrite", "Int32", TRUE),
       Field("relfrozenxid", "Int32", FALSE),
       Field("relminmxid", "Int32", FALSE) >>

\* The declared columns of pg_database.
PgDatabaseFields ==
    << Field("oid", "Int32", FALSE), Field("datname", "Utf8", FALSE),
       Field("datdba", "Int32", FALSE), Field("encoding", "Int32", FALSE),
       Field("datcollate", "Utf8", FALSE), Field("datctype", "Utf8", FALSE),
       Field("datistemplate", "Boolean", FALSE),
       Field("datallowconn", "Boolean", FALSE),
       Field("datconnlimit", "Int32", FALSE),
       Field("datlastsysoid", "Int32", FALSE),
       Field("datfrozenxid", "Int32", FALSE),
       Field("datminmxid", "Int32", FALSE),
       Field("dattablespace", "Int32", FALSE),
       Field("datacl", "Utf8", TRUE) >>

\* The declared columns of pg_attribute.
PgAttributeFields ==
    << Field("attrelid", "Int32", FALSE), Field("attname", "Utf8", FALSE),
       Field("atttypid", "Int32", FALSE), Field("attlen", "Int16", FALSE),
       Field("attnum", "Int16", FALSE), Field("attcacheoff", "Int32", FALSE),
       Field("atttypmod", "Int32", FALSE), Field("attndims", "Int16", FALSE),
       Field("attbyval", "Boolean", FALSE), Field("attalign", "Utf8", FALSE),
       Field("attstorage", "Utf8", FALSE),
       Field("attcompression", "Utf8", FALSE),
       Field("attnotnull", "Boolean", FALSE),
       Field("atthasdef", "Boolean", FALSE),
       Field("atthasmissing", "Boolean", FALSE),
       Field("attidentity", "Utf8", FALSE),
       Field("attgenerated", "Utf8", FALSE),
       Field("attisdropped", "Boolean", FALSE),
       Field("attislocal", "Boolean", FALSE),
       Field("attinhcount", "Int16", FALSE),
       Field("attcollation", "Int32", FALSE), Field("attacl", "Utf8", TRUE),
       Field("attoptions", "Utf8", TRUE),
       Field("attfdwoptions", "Utf8", TRUE),
       Field("attmissingval", "Utf8", TRUE) >>

\* The declared columns of pg_proc.
PgProcFields ==
    << Field("oid", "Int32", FALSE), Field("proname", "Utf8", FALSE),
       Field("pronamespace", "Int32", FALSE),
       Field("proowner", "Int32", FALSE), Field("prolang", "Int32", FALSE),
       Field("procost", "Float32", FALSE), Field("prorows", "Float32", FALSE),
       Field("provariadic", "Int32", FALSE),
       Field("prosupport", "Int32", FALSE), Field("prokind", "Utf8", FALSE),
       Field("prosecdef", "Boolean", FALSE),
       Field("proleakproof", "Boolean", FALSE),
       Field("proisstrict", "Boolean", FALSE),
       Field("proretset", "Boolean", FALSE),
       Field("provolatile", "Utf8", FALSE),
       Field("proparallel", "Utf8", FALSE), Field("pronargs", "Int16", FALSE),
       Field("pronargdefaults", "Int16", FALSE),
       Field("prorettype", "Int32", FALSE),
       Field("proargtypes", "Utf8", FALSE),
       Field("proallargtypes", "Utf8", TRUE),
       Field("proargmodes", "Utf8", TRUE), Field("proargnames", "Utf8", TRUE),
       Field("proargdefaults", "Utf8", TRUE),
       Field("protrftypes", "Utf8", TRUE), Field("prosrc", "Utf8", FALSE),
       Field("probin", "Utf8", TRUE), Field("prosqlbody", "Utf8", TRUE),
       Field("proconfig", "Utf8", TRUE), Field("proacl", "Utf8", TRUE) >>

\* One tuple of the vector `types`, with the columns oid, typname, typlen,
\* typbyval, typtype, typelem, typarray, typalign and typstorage.
PgType(oid, typname, typlen, typbyval, typtype, typelem, typarray, typalign, typstorage) ==
    [oid |-> oid, typname |-> typname, typlen |-> typlen, typbyval |-> typbyval,
     typtype |-> typtype, typelem |-> typelem, typarray |-> typarray,
     typalign |-> typalign, typstorage |-> typstorage]

\* The vector `types` of create_pg_type_data.
PgTypes ==
    << PgType(16, "bool", 1, TRUE, "b", 0, 1000, "c", "p"),
       PgType(21, "int2", 2, TRUE, "b", 0, 1005, "s", "p"),
       PgType(23, "int4", 4, TRUE, "b", 0, 1007, "i", "p"),
       PgType(20, "int8", 8, FALSE, "b", 0, 1016, "d", "p"),
       PgType(700, "float4", 4, TRUE, "b", 0, 1021, "i", "p"),
       PgType(701, "float8", 8, FALSE, "b", 0, 1022, "d", "p"),
       PgType(1043, "varchar", -1, FALSE, "b", 0, 1015, "i", "x"),
       PgType(25, "text", -1, FALSE, "b", 0, 1009, "i", "x"),
       PgType(1082, "date", 4, TRUE, "b", 0, 1182, "i", "p"),
       PgType(1114, "timestamp", 8, FALSE, "b", 0, 1115, "d", "p"),
       PgType(1184, "timestamptz", 8, FALSE, "b", 0, 1185, "d", "p"),
       PgType(1083, "time", 8, FALSE, "b", 0, 1183, "d", "p"),
       PgType(1186, "interval", 16, FALSE, "b", 0, 1187, "d", "p"),
       PgType(17, "bytea", -1, FALSE, "b", 0, 1001, "i", "x"),
       PgType(1700, "numeric", -1, FALSE, "b", 0, 1231, "i", "m"),
       PgType(18, "char", 1, TRUE, "b", 0, 1002, "c", "p"),
       PgType(705, "unknown", -2, FALSE, "p", 0, 0, "c", "p"),
       PgType(1000, "_bool", -1, FALSE, "b", 16, 0, "i", "x"),
       PgType(1005, "_int2", -1, FALSE, "b", 21, 0, "i", "x"),
       PgType(1007, "_int4", -1, FALSE, "b", 23, 0, "i", "x"),
       PgType(1016, "_int8", -1, FALSE, "b", 20, 0, "i", "x"),
       PgType(1021, "_float4", -1, FALSE, "b", 700, 0, "i", "x"),
       PgType(1022, "_float8", -1, FALSE, "b", 701, 0, "i", "x"),
       PgType(1015, "_varchar", -1, FALSE, "b", 1043, 0, "i", "x"),
       PgType(1009, "_text", -1, FALSE, "b", 25, 0, "i", "x"),
       PgType(1182, "_date", -1, FALSE, "b", 1082, 0, "i", "x"),
       PgType(1115, "_timestamp", -1, FALSE, "b", 1114, 0, "i", "x"),
       PgType(1185, "_timestamptz", -1, FALSE, "b", 1184, 0, "i", "x"),
       PgType(1183, "_time", -1, FALSE, "b", 1083, 0, "i", "x"),
       PgType(1187, "_interval", -1, FALSE, "b", 1186, 0, "i", "x"),
       PgType(1001, "_bytea", -1, FALSE, "b", 17, 0, "i", "x"),
       PgType(1231, "_numeric", -1, FALSE, "b", 1700, 0, "i", "x"),
       PgType(1002, "_char", -1, FALSE, "b", 18, 0, "i", "x") >>

\* A variant that loses the array type of every tuple.
PgTypeRowWithoutArray(type) == [type EXCEPT !.typarray = 0]

\* The loop over `types`: every column of a tuple is pushed as it is.
PgTypeRow(type) == type

\* The batch create_pg_type_data returns.
PgTypeRows == [k \in DOMAIN PgTypes |-> PgTypeRow(PgTypes[k])]

\* A variant of pg_am with a row.
PgAmRowsOne(fields) == << [k \in DOMAIN fields |-> 0] >>

\* MemTable::try_new(schema, vec![]): pg_am has no partition, so no row.
PgAmRows(fields) == <<>>

\* PG_CATALOG_TABLES, each with its declared columns.
PgCatalogTables ==
    << Table("pg_type", PgTypeFields), Table("pg_class", PgClassFields),
       Table("pg_attribute", PgAttributeFields), TPgNamespace,
       Table("pg_proc", PgProcFields), Table("pg_database", PgDatabaseFields),
       Table("pg_am", PgAmFields) >>

\* The schema setup_pg_catalog registers.
PgCatalogSchema == Schema("pg_catalog", PgCatalogTables)

\* The functions setup_pg_catalog registers, in its order.
UdfNames ==
    << "current_schema", "current_schemas", "version", "pg_version_num",
       "current_database", "current_user", "session_user", "user",
       "pg_encoding_to_char", "getdatabaseencoding" >>

\* CatalogProvider::register_schema: the schema takes the place of one of
\* the same name, or is added.
RegisterSchema(schemas, schema) ==
    LET hits == {i \in DOMAIN schemas : schemas[i].name = schema.name}
    IN  IF hits = {} THEN Append(schemas, schema)
        ELSE [i \in DOMAIN schemas |-> IF i \in hits THEN schema ELSE schemas[i]]

\* A variant that registers the functions before it looks for the catalog.
SetupRegistersFirst(cl, udfs, catalog_name) ==
    LET ci == Resolve(cl, catalog_name)
    IN  IF ci = 0
        THEN [catalog_list |-> cl, udfs |-> udfs \cup Range(UdfNames),
              result |-> "Configuration"]
        ELSE [catalog_list |-> [cl EXCEPT ![ci].schemas = RegisterSchema(@, PgCatalogSchema)],
              udfs |-> udfs \cup Range(UdfNames),
              result |-> "Ok"]

\* setup_pg_catalog: the catalog list, the registered functions and the
\* result after the call.  A missing catalog returns the Configuration error
\* by `?`, before anything is registered.
Setup(cl, udfs, catalog_name) ==
    LET ci == Resolve(cl, catalog_name)
    IN  IF ci = 0
        THEN [catalog_list |-> cl, udfs |-> udfs, result |-> "Configuration"]
        ELSE [catalog_list |-> [cl EXCEPT ![ci].schemas = RegisterSchema(@, PgCatalogSchema)],
              udfs |-> udfs \cup Range(UdfNames),
              result |-> "Ok"]

SetupPgCatalog(catalog_name) ==
    LET after == Setup(catalog_list, session.udfs, catalog_name)
    IN  /\ Events < MaxEvents
        /\ catalog_list' = after.catalog_list
        /\ session' = [udfs |-> after.udfs,
                       call |-> [fn |-> "setup_pg_catalog", arg |-> catalog_name,
                                 result |-> after.result]]
        /\ mutations' = IF after.result = "Ok" THEN mutations + 1 ELSE mutations
        /\ task' = IF after.result = "Ok" THEN Touched ELSE task
        /\ UNCHANGED delivered

\* The pg_catalog schema is registered in a registered catalog: its tables
\* can be queried.
PgCatalogRegistered ==
    \E ci \in DOMAIN catalog_list :
        /\ catalog_list[ci].registered
        /\ Resolve(catalog_list[ci].schemas, "pg_catalog") # 0

\* A scan of pg_catalog.pg_am.
QueryPgAm ==
    /\ PgCatalogRegistered
    /\ session' = [session EXCEPT !.call =
                      [fn |-> "pg_am", schema |-> PgAmFields, rows |-> PgAmRows(PgAmFields)]]
    /\ UNCHANGED <<catalog_list, task, delivered, mutations>>

\* A scan of pg_catalog.pg_type.
QueryPgType ==
    /\ PgCatalogRegistered
    /\ session' = [session EXCEPT !.call =
                      [fn |-> "pg_type", schema |-> PgTypeFields, rows |-> PgTypeRows]]
    /\ UNCHANGED <<catalog_list, task, delivered, mutations>>

\* One tuple of `functions` in PgProcTable::get_data, with the columns the
\* properties read.
Function(oid, proname, pronargs, prorettype, proargtypes) ==
    [oid |-> oid, proname |-> proname, pronargs |-> pronargs,
     prorettype |-> prorettype, proargtypes |-> proargtypes]

Functions ==
    << Function(2200, "version", 0, 25, ""),
       Function(2201, "pg_version_num", 0, 25, ""),
       Function(2202, "current_database", 0, 25, ""),
       Function(2203, "current_user", 0, 25, ""),
       Function(2204, "session_user", 0, 25, ""),
       Function(2205, "user", 0, 25, ""),
       Function(2206, "current_schema", 0, 25, ""),
       Function(2207, "current_schemas", 1, 1009, "16"),
       Function(2208, "getdatabaseencoding", 0, 25, ""),
       Function(2209, "pg_encoding_to_char", 1, 25, "23") >>

\* A variant that reports every function without arguments.
ProcRowWithoutArgs(function) == [function EXCEPT !.pronargs = 0]

\* The loop over `functions`: every column of a tuple is pushed as it is.
ProcRow(function) == function

\* The batch PgProcTable::get_data returns; it does not read the catalog.
PgProcRows == [k \in DOMAIN Functions |-> ProcRow(Functions[k])]

\* The argument types in the signature create_udf gives each function.
UdfArgs(name) ==
    CASE name = "current_schemas" -> << "Boolean" >>
      [] name = "pg_encoding_to_char" -> << "Int32" >>
      [] OTHER -> <<>>

\* A scan of pg_catalog.pg_proc.
QueryPgProc ==
    /\ PgCatalogRegistered
    /\ session' = [session EXCEPT !.call =
                      [fn |-> "pg_proc", schema |-> PgProcFields, rows |-> PgProcRows]]
    /\ UNCHANGED <<catalog_list, task, delivered, mutations>>

\* A name as the sequence of its characters.
PG_CATALOG_TABLES ==
    << << "p", "g", "_", "t", "y", "p", "e" >>,
       << "p", "g", "_", "c", "l", "a", "s", "s" >>,
       << "p", "g", "_", "a", "t", "t", "r", "i", "b", "u", "t", "e" >>,
       << "p", "g", "_", "n", "a", "m", "e", "s", "p", "a", "c", "e" >>,
       << "p", "g", "_", "p", "r", "o", "c" >>,
       << "p", "g", "_", "d", "a", "t", "a", "b", "a", "s", "e" >>,
       << "p", "g", "_", "a", "m" >> >>

UpperCase ==
    << "A", "B", "C", "D", "E", "F", "G", "H", "I", "J", "K", "L", "M", "N", "O", "P", "Q", "R", "S", "T", "U", "V", "W", "X", "Y", "Z" >>

LowerCase ==
    << "a", "b", "c", "d", "e", "f", "g", "h", "i", "j", "k", "l", "m", "n", "o", "p", "q", "r", "s", "t", "u", "v", "w", "x", "y", "z" >>

\* A variant that leaves the name as it is.
NameUnchanged(name) == name

\* str::to_ascii_lowercase: 'A'..'Z' become 'a'..'z', every other character
\* stays.
to_ascii_lowercase(name) ==
    [k \in DOMAIN name |->
        IF \E i \in DOMAIN UpperCase : UpperCase[i] = name[k]
        THEN LowerCase[CHOOSE i \in DOMAIN UpperCase : UpperCase[i] = name[k]]
        ELSE name[k]]

\* SchemaProvider::table_names of the pg_catalog provider.
ProviderTableNames == PG_CATALOG_TABLES

\* SchemaProvider::table: the match on the lowercased name; the arm of a
\* table name builds that table, every other name is Ok(None).
ProviderTable(name) ==
    LET lower == to_ascii_lowercase(name)
        arms == {i \in DOMAIN PG_CATALOG_TABLES : PG_CATALOG_TABLES[i] = lower}
    IN  IF arms = {} THEN [kind |-> "none"]
        ELSE [kind |-> "some", table |-> PgCatalogTables[CHOOSE i \in arms : TRUE]]

\* SchemaProvider::table_exist.
ProviderTableExist(name) ==
    \E i \in DOMAIN PG_CATALOG_TABLES : PG_CATALOG_TABLES[i] = to_ascii_lowercase(name)

\* The names the provider is asked for.
LookupNames ==
    { << "p", "g", "_", "t", "y", "p", "e" >>,
      << "P", "G", "_", "T", "Y", "P", "E" >>,
      << "P", "g", "_", "C", "l", "a", "s", "s" >>,
      << "p", "g", "_", "a", "t", "t", "r", "i", "b", "u", "t", "e" >>,
      << "P", "G", "_", "N", "a", "m", "e", "s", "p", "a", "c", "e" >>,
      << "p", "g", "_", "p", "r", "o", "c" >>,
      << "P", "G", "_", "D", "A", "T", "A", "B", "A", "S", "E" >>,
      << "p", "g", "_", "a", "m" >>,
      << "P", "G", "_", "A", "M" >>,
      <<>>,
      << "p", "g", "_", "a", "m", "x" >>,
      << "g", "_", "a", "m" >>,
      << "p", "g", "-", "a", "m" >>,
      << "p", "g", "_", "a", "m", " " >>,
      << "P", "G", "_", "T", "Y", "P", "E", "1" >>,
      << "t", "1" >>,
      << "p", "g", "_", "c", "a", "t", "a", "l", "o", "g" >> }

CallTableNames ==
    /\ PgCatalogRegistered
    /\ session' = [session EXCEPT !.call = [fn |-> "table_names", result |-> ProviderTableNames]]
    /\ UNCHANGED <<catalog_list, task, delivered, mutations>>

CallTable(name) ==
    /\ PgCatalogRegistered
    /\ session' = [session EXCEPT !.call =
                      [fn |-> "table", name |-> name, result |-> ProviderTable(name)]]
    /\ UNCHANGED <<catalog_list, task, delivered, mutations>>

CallTableExist(name) ==
    /\ PgCatalogRegistered
    /\ session' = [session EXCEPT !.call =
                      [fn |-> "table_exist", name |-> name, result |-> ProviderTableExist(name)]]
    /\ UNCHANGED <<catalog_list, task, delivered, mutations>>

\* A boolean argument column (BooleanArray): per row the validity bit and
\* the bit of the values buffer, which is there also for a null row.
BoolSlot(valid, value) == [valid |-> valid, value |-> value]

BoolColumns ==
    UNION { [1..n -> {BoolSlot(valid, value) : valid, value \in BOOLEAN}] : n \in 0..MaxRows }

\* A variant that never adds the implicit schemas.
CurrentSchemasExplicit(include_implicit) == << "public" >>

\* The vector `values` of current_schemas.
CurrentSchemasValues(include_implicit) ==
    IF include_implicit THEN << "public", "information_schema", "pg_catalog" >>
    ELSE << "public" >>

\* current_schemas over an argument column: input.value(0) panics on a
\* column without rows; the result is a list array of one row.
CurrentSchemas(input) ==
    IF Len(input) = 0 THEN [kind |-> "panic", lists |-> <<>>]
    ELSE [kind |-> "array", lists |-> << CurrentSchemasValues(input[1].value) >>]

CallCurrentSchemas(input) ==
    /\ "current_schemas" \in session.udfs
    /\ session' = [session EXCEPT !.call =
                      [fn |-> "current_schemas", input |-> input,
                       result |-> CurrentSchemas(input)]]
    /\ UNCHANGED <<catalog_list, task, delivered, mutations>>

\* The catalog lists a session is set up over, and the catalog names
\* setup_pg_catalog is called with.
SessionCatalogs ==
    { <<>>,
      << Catalog("datafusion", << Schema("public", << T1 >>) >>) >>,
      << Catalog("datafusion", <<>>), Catalog("c1", << Schema("s1", << T1 >>) >>) >> }

SetupNames == {"datafusion", "c1", "missing"}

InitSession ==
    /\ catalog_list \in SessionCatalogs
    /\ InitTasks

NextSession ==
    \/ \E catalog_name \in SetupNames : SetupPgCatalog(catalog_name)
    \/ QueryPgAm
    \/ QueryPgType
    \/ \E input \in BoolColumns : CallCurrentSchemas(input)
    \/ QueryPgProc
    \/ CallTableNames
    \/ \E name \in LookupNames : CallTable(name)
    \/ \E name \in LookupNames : CallTableExist(name)

\* Setup and calls on one session, no stream running.
SpecSession == InitSession /\ [][NextSession]_vars

(***************************************************************************)
(* Properties.                                                             *)
(***************************************************************************)
\* The items relation r has yielded so far.
Items(r) == Range(delivered[r])

\* The batches of r that were built over a catalog nobody changed
\* meanwhile.
CleanBatches(r) == {d \in Items(r) : d.kind = "batch" /\ d.clean}

\* The positions of seq whose element satisfies Test, in order.
RECURSIVE PositionsFrom(_, _, _)
PositionsFrom(seq, Test(_), i) ==
    IF i > Len(seq) THEN <<>>
    ELSE (IF Test(seq[i]) THEN <<i>> ELSE <<>>) \o PositionsFrom(seq, Test, i + 1)

Distinct(seq) == \A i, j \in DOMAIN seq : i # j => seq[i] # seq[j]

Oids(rows) == [k \in DOMAIN rows |-> rows[k].oid]

\* The oids a pg_namespace batch n reports for the schema at position at
\* (catalog, schema) of its catalog: the fixed row of that name for a system
\* schema name, else the row built from that schema.
NamespaceOidsOf(n, at) ==
    LET name == n.snapshot[at[1]].schemas[at[2]].name
    IN  IF name \in SystemSchemaNames
        THEN {n.rows[k].oid : k \in {j \in 1..3 : n.rows[j].nspname = name}}
        ELSE {n.rows[k].oid : k \in {j \in DOMAIN n.rows : n.origin[j] = at}}

\* C1: over an unchanged catalog, every pg_class row's relnamespace is the
\* oid pg_namespace reports for the schema that holds the row's table.
C1_RelnamespaceIsNamespaceOid ==
    \A n \in CleanBatches("pg_namespace"), c \in CleanBatches("pg_class") :
        n.snapshot = c.snapshot =>
            \A k \in DOMAIN c.rows :
                NamespaceOidsOf(n, <<c.origin[k][1], c.origin[k][2]>>)
                    = {c.rows[k].relnamespace}

\* The catalog of the end-to-end example: catalog c1, schema s1, table t1
\* with the fields a: int4 and b: text, both not nullable.
C2_Catalog == << Catalog("c1", << Schema("s1", << T1 >>) >>) >>

C2_Attribute(row, relid, name, typid, num) ==
    /\ row.attrelid = relid
    /\ row.attname = name
    /\ row.atttypid = typid
    /\ row.attnum = num
    /\ row.attnotnull = TRUE

\* C2: over the example catalog, pg_namespace has a row s1 with an oid
\* X >= 10000; pg_class is the one row (t1, relnamespace X, relkind r,
\* relnatts 2); pg_attribute is the two rows (a, int4, 1, not null) and
\* (b, text, 2, not null) of that pg_class row's oid.
C2_EndToEnd ==
    \A n \in CleanBatches("pg_namespace"), c \in CleanBatches("pg_class"),
       a \in CleanBatches("pg_attribute") :
        (n.snapshot = C2_Catalog /\ c.snapshot = C2_Catalog /\ a.snapshot = C2_Catalog)
        => \E X \in {n.rows[k].oid : k \in {j \in DOMAIN n.rows : n.rows[j].nspname = "s1"}} :
              /\ X >= 10000
              /\ Len(c.rows) = 1
              /\ c.rows[1].relname = "t1"
              /\ c.rows[1].relnamespace = X
              /\ c.rows[1].relkind = "r"
              /\ c.rows[1].relnatts = 2
              /\ Len(a.rows) = 2
              /\ C2_Attribute(a.rows[1], c.rows[1].oid, "a", 23, 1)
              /\ C2_Attribute(a.rows[2], c.rows[1].oid, "b", 25, 2)

C2_Witness ==
    \E n \in CleanBatches("pg_namespace"), c \in CleanBatches("pg_class"),
       a \in CleanBatches("pg_attribute") :
        n.snapshot = C2_Catalog /\ c.snapshot = C2_Catalog /\ a.snapshot = C2_Catalog

\* C4: two fetches of one relation over the same unchanged catalog yield the
\* same item, rows and oids alike, and every fetch starts its counter at the
\* base (16384 for pg_database, 10000 for the others).
C4_RepeatedFetchIsIdentical ==
    \A r \in Relations :
        /\ \A d \in Items(r) :
              d.assigned # <<>> =>
                  d.assigned[1].oid = (IF r = "pg_database" THEN DATABASE_BASE_OID
                                       ELSE NAMESPACE_BASE_OID)
        /\ \A d1, d2 \in Items(r) :
              (d1.clean /\ d2.clean /\ d1.snapshot = d2.snapshot)
              => (d1.kind = d2.kind /\ d1.rows = d2.rows /\ d1.assigned = d2.assigned)

C4_Witness ==
    /\ Len(delivered["pg_class"]) >= 2
    /\ \A i \in 1..2 : /\ delivered["pg_class"][i].clean
                       /\ delivered["pg_class"][i].kind = "batch"
                       /\ Len(delivered["pg_class"][i].rows) >= 1
    /\ delivered["pg_class"][1].snapshot = delivered["pg_class"][2].snapshot

\* The (catalog, schema) positions pg_namespace numbers: the schemas whose
\* name is no system schema name, catalog by catalog in enumeration order.
DynamicSchemas(cl) ==
    Concat([ci \in DOMAIN cl |->
              IF cl[ci].registered
              THEN LET ps == PositionsFrom(cl[ci].schemas,
                                 LAMBDA sc : sc.registered
                                             /\ sc.name \notin SystemSchemaNames, 1)
                   IN  [k \in DOMAIN ps |-> <<ci, ps[k]>>]
              ELSE <<>>])

\* C5: pg_namespace starts with the three system rows 11 pg_catalog,
\* 12 information_schema and 2200 public; then one row per (catalog, schema)
\* whose name is no system schema name, in enumeration order, the i-th
\* (from 0) with oid 10000 + i; a system schema name adds no row and takes
\* no oid.
C5_NamespaceRows ==
    \A n \in CleanBatches("pg_namespace") :
        LET dyn == DynamicSchemas(n.snapshot)
        IN  /\ Len(n.rows) = 3 + Len(dyn)
            /\ {<<n.rows[k].oid, n.rows[k].nspname>> : k \in 1..3}
                 = {<<11, "pg_catalog">>, <<12, "information_schema">>, <<2200, "public">>}
            /\ \A i \in DOMAIN dyn :
                  /\ n.rows[3 + i].oid = 10000 + (i - 1)
                  /\ n.rows[3 + i].nspname = n.snapshot[dyn[i][1]].schemas[dyn[i][2]].name
            /\ Len(n.assigned) = Len(dyn)

\* A system schema name comes first and a numbered schema after it.
C5_Witness ==
    \E n \in CleanBatches("pg_namespace") :
        /\ Len(n.rows) >= 4
        /\ n.snapshot[1].schemas # <<>>
        /\ n.snapshot[1].schemas[1].name \in SystemSchemaNames

\* C6: pg_database is one row per catalog name in enumeration order, the
\* i-th (from 0) with oid 16384 + i, and, exactly when no catalog is called
\* "postgres", a last row "postgres" with oid 16384 + (number of catalogs);
\* so exactly one row is called "postgres", and it is the only row when
\* there is no catalog.
C6_DatabaseRows ==
    \A d \in CleanBatches("pg_database") :
        LET names == Names(d.snapshot)
            count == Len(names)
        IN  /\ Len(d.rows) >= count
            /\ \A i \in DOMAIN names :
                  d.rows[i].oid = 16384 + (i - 1) /\ d.rows[i].datname = names[i]
            /\ IF \E i \in DOMAIN names : names[i] = "postgres"
               THEN Len(d.rows) = count
               ELSE /\ Len(d.rows) = count + 1
                    /\ d.rows[count + 1].oid = 16384 + count
                    /\ d.rows[count + 1].datname = "postgres"
            /\ Cardinality({k \in DOMAIN d.rows : d.rows[k].datname = "postgres"}) = 1
            /\ (count = 0 => Len(d.rows) = 1)

C6_Witness ==
    \E d \in CleanBatches("pg_database") :
        /\ Len(d.snapshot) = 2
        /\ Len(d.rows) = 2
        /\ d.rows[1].datname = "postgres"

\* C7: when a listed schema or table no longer resolves at its lookup, the
\* pg_class or pg_attribute fetch ends with an error.
C7_VanishedNameAborts ==
    \A r \in Walkers : \A d \in Items(r) : d.missed # <<>> => d.kind = "error"

\* The tables whose lookup in fetch d was answered with an error.
FailedLookups(d) ==
    {k \in DOMAIN d.assigned :
        /\ d.assigned[k].kind = "table"
        /\ d.assigned[k].at[3] # 0
        /\ catalog_list[d.assigned[k].at[1]].schemas[d.assigned[k].at[2]]
              .tables[d.assigned[k].at[3]].fails}

\* C8: a pg_class or pg_attribute fetch in which a table lookup returned an
\* error ends with the error at that lookup and yields no row, also none of
\* the tables it resolved before.
C8_LookupErrorYieldsNoRows ==
    \A r \in Walkers : \A d \in Items(r) :
        FailedLookups(d) # {} =>
            /\ d.kind = "error"
            /\ d.rows = <<>>
            /\ FailedLookups(d) = {Len(d.assigned)}

C8_Witness ==
    \E r \in Walkers : \E d \in Items(r) :
        /\ d.kind = "error"
        /\ \E k \in DOMAIN d.assigned :
              d.assigned[k].kind = "table" /\ k \notin FailedLookups(d)
                 /\ d.assigned[k].at[3] # 0

\* C9: the walks leave out the schemas that carry a system schema name: no
\* pg_class or pg_attribute fetch gives an oid to such a schema or to one of
\* its tables (so none of them gets a row), and pg_namespace has no row
\* after its first three with such a name.
C9_SystemSchemasNotWalked ==
    /\ \A r \in Walkers : \A d \in Items(r) : \A k \in DOMAIN d.assigned :
          catalog_list[d.assigned[k].at[1]].schemas[d.assigned[k].at[2]].name
              \notin SystemSchemaNames
    /\ \A n \in Items("pg_namespace") : \A k \in DOMAIN n.rows :
          k > 3 => n.rows[k].nspname \notin SystemSchemaNames

AssignedOids(d) == [k \in DOMAIN d.assigned |-> d.assigned[k].oid]

\* C10: within one fetch no oid is used twice: not by two pg_namespace rows,
\* not by two pg_class rows, not by a pg_class row and a schema of the same
\* fetch, not by two pg_database rows.
C10_OidsDistinct ==
    /\ \A d \in Items("pg_namespace") : Distinct(Oids(d.rows))
    /\ \A d \in Items("pg_class") :
          Distinct(Oids(d.rows)) /\ Distinct(AssignedOids(d))
    /\ \A d \in Items("pg_database") : Distinct(Oids(d.rows))

C10_Witness ==
    /\ \E d \in Items("pg_namespace") : Len(d.rows) >= 4
    /\ \E d \in Items("pg_class") :
          /\ Len(d.rows) >= 2
          /\ Cardinality({k \in DOMAIN d.assigned : d.assigned[k].kind = "schema"}) >= 2
    /\ \E d \in Items("pg_database") : Len(d.rows) >= 2

\* The rows of batch d that carry the oid of the table of d.assigned[k].
RowsOfTable(d, k) == {j \in DOMAIN d.rows : d.rows[j].attrelid = d.assigned[k].oid}

\* C3: every table a pg_attribute fetch resolves, of N fields, has exactly N
\* rows, and they are, in the order of the relation, the declared fields
\* one by one with attnum 1, 2, ..., N.
C3_AttnumsNumberTheFields ==
    \A d \in Items("pg_attribute") :
        d.kind = "batch" =>
            \A k \in DOMAIN d.assigned :
                (d.assigned[k].kind = "table" /\ d.assigned[k].at[3] # 0) =>
                    LET at == d.assigned[k].at
                        fields == catalog_list[at[1]].schemas[at[2]].tables[at[3]].fields
                        own == RowsOfTable(d, k)
                        lo == CHOOSE j \in own : \A i \in own : j <= i
                    IN  /\ Cardinality(own) = Len(fields)
                        /\ fields # <<>> =>
                              \A n \in DOMAIN fields :
                                  /\ (lo + n - 1) \in own
                                  /\ d.rows[lo + n - 1].attname = fields[n].name
                                  /\ d.rows[lo + n - 1].attnum = n

\* C11: no oid the dynamic counter of a pg_namespace, pg_class or
\* pg_attribute fetch hands out is 11, 12 or 2200 or lies in the database
\* range from 16384 on, and the first oid of a fetch is 10000.
C11_ReservedOidsNotReused ==
    \A r \in {"pg_namespace", "pg_class", "pg_attribute"} : \A d \in Items(r) :
        /\ d.assigned # <<>> => d.assigned[1].oid = 10000
        /\ \A k \in DOMAIN d.assigned :
              /\ d.assigned[k].oid \notin {PG_CATALOG_OID, INFORMATION_SCHEMA_OID, PUBLIC_OID}
              /\ d.assigned[k].oid < DATABASE_BASE_OID

\* The pg_attribute batches delivered so far.
AttributeBatches == {d \in Items("pg_attribute") : d.kind = "batch"}

\* The declared field that row j of pg_attribute batch d was built from: the
\* rows of a table are consecutive, in field order.
FieldOfRow(d, j) ==
    LET at == d.origin[j]
        first == CHOOSE i \in DOMAIN d.rows :
                    /\ d.origin[i] = at
                    /\ \A h \in DOMAIN d.rows : d.origin[h] = at => i <= h
    IN  d.snapshot[at[1]].schemas[at[2]].tables[at[3]].fields[j - first + 1]

\* C12: Int8, Int16, Int32 and Float32 columns are by-value with alignment
\* 'i'; Int64, Float64, Date64 and Timestamp columns are by-value with
\* alignment 'd'.
C12_ByValAndAlignment ==
    \A d \in AttributeBatches : \A j \in DOMAIN d.rows :
        LET data_type == FieldOfRow(d, j).data_type
        IN  /\ data_type \in {"Int8", "Int16", "Int32", "Float32"}
                => (d.rows[j].attbyval /\ d.rows[j].attalign = "i")
            /\ data_type \in {"Int64", "Float64", "Date64", "Timestamp"}
                => (d.rows[j].attbyval /\ d.rows[j].attalign = "d")

\* The native types the alignment rules name, and those the storage rule
\* names.
AlignmentListed ==
    {"Int8", "Boolean", "Int16", "Int32", "Float32", "Date32",
     "Int64", "Float64", "Date64", "Timestamp"}

StorageListed == {"Utf8", "LargeUtf8", "Binary", "LargeBinary"}

C14_UnmappedTypeIsUnknown ==
    \A d \in Items("pg_attribute") :
        LET c == d.snapshot[1].schemas[1].tables[1].fields[1]
        IN  /\ d.kind = "batch"
            /\ Len(d.rows) = 3
            /\ d.rows[1].attname = "c"
            /\ d.rows[1].attrelid = 10001
            /\ d.rows[1].attnum = 1
            /\ into_pg_type(c.data_type) = 0 => d.rows[1].atttypid = 705
            /\ into_pg_type(c.data_type) # 0 => d.rows[1].atttypid = into_pg_type(c.data_type)
            /\ d.rows[2] = AttributeRow(10001, 1, Field("k", "Int32", FALSE))
            /\ d.rows[2].atttypid = 23 /\ d.rows[2].attnum = 2
            /\ d.rows[3] = AttributeRow(10002, 0, Field("x", "Int64", TRUE))
            /\ d.rows[3].atttypid = 20 /\ d.rows[3].attnum = 1

C14_Witness ==
    \E d \in Items("pg_attribute") :
        /\ d.snapshot[1].schemas[1].tables[1].fields[1].data_type = "Duration"
        /\ d.kind = "batch"

\* C15: attnotnull is the negation of the field's nullability; attndims is 1
\* for a List, LargeList or FixedSizeList field and 0 for any other;
\* atthasdef is false and attgenerated is empty.
C15_NotNullAndDims ==
    \A d \in AttributeBatches : \A j \in DOMAIN d.rows :
        LET field == FieldOfRow(d, j)
        IN  /\ d.rows[j].attnotnull = ~field.nullable
            /\ d.rows[j].attndims =
                  (IF field.data_type \in {"List", "LargeList", "FixedSizeList"}
                   THEN 1 ELSE 0)
            /\ d.rows[j].atthasdef = FALSE
            /\ d.rows[j].attgenerated = ""

\* A batch with a nullable list column next to a not nullable scalar one.
C15_Witness ==
    \E d \in AttributeBatches :
        /\ FieldOfRow(d, 1).data_type = "FixedSizeList"
        /\ FieldOfRow(d, 1).nullable
        /\ ~FieldOfRow(d, 2).nullable

\* C16: every pg_class row has relkind 'r', relnatts equal to the number of
\* fields of its table, relpages 1, reltuples 0 and relallvisible 0.
C16_ClassRowConstants ==
    \A d \in Items("pg_class") : \A j \in DOMAIN d.rows :
        LET at == d.origin[j]
            table == d.snapshot[at[1]].schemas[at[2]].tables[at[3]]
        IN  /\ d.rows[j].relkind = "r"
            /\ d.rows[j].relnatts = Len(table.fields)
            /\ d.rows[j].relpages = 1
            /\ d.rows[j].reltuples = 0
            /\ d.rows[j].relallvisible = 0

\* C17: current_schemas(false) returns the list ["public"], and
\* current_schemas(true) returns the list ["public", "information_schema",
\* "pg_catalog"], the elements in that order.  A scalar argument reaches the
\* function as a column of one valid row.
C17_CurrentSchemasLists ==
    (/\ session.call.fn = "current_schemas"
     /\ Len(session.call.input) = 1
     /\ session.call.input[1].valid)
    => session.call.result =
          [kind |-> "array",
           lists |-> << IF session.call.input[1].value
                        THEN << "public", "information_schema", "pg_catalog" >>
                        ELSE << "public" >> >>]

\* current_schemas(true) was called.
C17_Witness ==
    /\ session.call.fn = "current_schemas"
    /\ session.call.input = << BoolSlot(TRUE, TRUE) >>
    /\ Len(session.call.result.lists[1]) = 3

\* C18: pg_am returns zero rows on every query, whatever the catalog
\* contains, and its declared schema has exactly 22 columns, all not
\* nullable, starting with oid, amname, amhandler, amtype and ending with
\* amkeytype.
C18_PgAmEmptyWithSchema ==
    session.call.fn = "pg_am"
    => /\ session.call.rows = <<>>
       /\ Len(session.call.schema) = 22
       /\ \A k \in DOMAIN session.call.schema : ~session.call.schema[k].nullable
       /\ [k \in 1..4 |-> session.call.schema[k].name]
             = << "oid", "amname", "amhandler", "amtype" >>
       /\ session.call.schema[22].name = "amkeytype"
       /\ \A k, l \in DOMAIN session.call.schema :
             session.call.schema[k].name = session.call.schema[l].name => k = l

\* pg_am was queried in a session whose catalogs hold a user table.
C18_Witness ==
    /\ session.call.fn = "pg_am"
    /\ \E ci \in DOMAIN catalog_list : \E si \in DOMAIN catalog_list[ci].schemas :
          /\ catalog_list[ci].schemas[si].name # "pg_catalog"
          /\ catalog_list[ci].schemas[si].tables # <<>>

\* The rows of a pg_type result that are the array variants of a row.
ArrayVariants(rows, row) == {k \in DOMAIN rows : rows[k].typelem = row.oid}

\* C19 as claimed, a scalar row being a row that is not an array (typelem
\* 0, the rows under "Basic types"): every such row has exactly one array
\* variant, typarray and typelem are mutual inverses, and the oids are
\* pairwise distinct.
C19_EveryBasicTypeHasArray ==
    session.call.fn = "pg_type"
    => LET rows == session.call.rows
       IN  /\ \A k \in DOMAIN rows : rows[k].typelem = 0 =>
                 /\ Cardinality(ArrayVariants(rows, rows[k])) = 1
                 /\ \E l \in ArrayVariants(rows, rows[k]) : rows[l].oid = rows[k].typarray
           /\ \A k \in DOMAIN rows : rows[k].typelem # 0 =>
                 \E l \in DOMAIN rows :
                     rows[l].oid = rows[k].typelem /\ rows[l].typarray = rows[k].oid
           /\ \A k, l \in DOMAIN rows : rows[k].oid = rows[l].oid => k = l

\* C19: every base type row of pg_type that is not an array (typtype 'b',
\* typelem 0) has exactly one array variant, the row its typarray names;
\* every row with a typelem names a row whose typarray points back to it;
\* the oids are pairwise distinct.  The pseudo-type row "unknown" has no
\* array variant and typarray 0.
C19_BaseTypesHaveOneArray ==
    session.call.fn = "pg_type"
    => LET rows == session.call.rows
       IN  /\ \A k \in DOMAIN rows : rows[k].typelem = 0 =>
                 IF rows[k].typtype = "b"
                 THEN /\ Cardinality(ArrayVariants(rows, rows[k])) = 1
                      /\ \E l \in ArrayVariants(rows, rows[k]) :
                            rows[l].oid = rows[k].typarray
                 ELSE /\ ArrayVariants(rows, rows[k]) = {}
                      /\ rows[k].typarray = 0
           /\ \A k \in DOMAIN rows : rows[k].typelem # 0 =>
                 \E l \in DOMAIN rows :
                     rows[l].oid = rows[k].typelem /\ rows[l].typarray = rows[k].oid
           /\ \A k, l \in DOMAIN rows : rows[k].oid = rows[l].oid => k = l

\* pg_type was queried and holds base rows, array rows and a pseudo-type row.
C19_Witness ==
    /\ session.call.fn = "pg_type"
    /\ \E k, l, n \in DOMAIN session.call.rows :
          /\ session.call.rows[k].typarray = session.call.rows[l].oid
          /\ session.call.rows[l].typelem = session.call.rows[k].oid
          /\ session.call.rows[n].typtype = "p"

\* Some catalog of the list, registered or not, holds a schema of that name.
HoldsSchema(cl, name) ==
    \E ci \in DOMAIN cl : \E si \in DOMAIN cl[ci].schemas : cl[ci].schemas[si].name = name

C21_OneShotAllOrNothing ==
    [][\A r \in Relations :
          /\ delivered'[r] # delivered[r] =>
                /\ Running(r)
                /\ task'[r].pc = "yielded"
                /\ Len(delivered'[r]) = Len(delivered[r]) + 1
                /\ SubSeq(delivered'[r], 1, Len(delivered[r])) = delivered[r]
                /\ LET item == delivered'[r][Len(delivered'[r])]
                   IN  /\ item.kind \in {"batch", "error"}
                       /\ item.kind = "error" => item.rows = <<>>
                       /\ item.kind = "batch" => item.rows = task'[r].rows
          /\ task[r].pc = "yielded" =>
                task'[r] \in {task[r], NoTask} /\ delivered'[r] = delivered[r]
          /\ task'[r].pc = "dropped" =>
                /\ delivered'[r] = delivered[r]
                /\ task'[r].rows = <<>>
          /\ task'[r].pc = "start" =>
                task'[r] = [NoTask EXCEPT !.pc = "start", !.snapshot = catalog_list]
      ]_vars

\* A relation was fetched to its end, then fetched again and that stream
\* dropped after its future had resolved a table.
C21_Witness ==
    \E r \in Walkers :
        /\ task[r].pc = "dropped"
        /\ delivered[r] # <<>>
        /\ \E k \in DOMAIN task[r].assigned :
              task[r].assigned[k].kind = "table" /\ task[r].assigned[k].at[3] # 0

\* The schema of the table of d.assigned[k], as (catalog, schema).
SchemaAt(d, k) == << d.assigned[k].at[1], d.assigned[k].at[2] >>

\* C22: within one pg_class or pg_attribute fetch the oids come from one
\* counter in traversal order: a resolved schema gets its oid before any of
\* its tables, every table's oid is greater than its own schema's oid and
\* smaller than the oid of every schema visited later, and the pg_class rows
\* come with strictly increasing oid.
C22_OidsFollowTraversal ==
    \A r \in Walkers : \A d \in Items(r) :
        /\ \A k \in DOMAIN d.assigned :
              d.assigned[k].oid = NAMESPACE_BASE_OID + (k - 1)
        /\ \A k \in DOMAIN d.assigned :
              d.assigned[k].kind = "table" =>
                 /\ \E j \in 1..(k - 1) :
                       /\ d.assigned[j].kind = "schema"
                       /\ d.assigned[j].at = SchemaAt(d, k)
                       /\ d.assigned[j].oid < d.assigned[k].oid
                       /\ \A l \in (j + 1)..(k - 1) : d.assigned[l].kind = "table"
                 /\ \A l \in DOMAIN d.assigned :
                       (l > k /\ d.assigned[l].kind = "schema")
                       => d.assigned[l].oid > d.assigned[k].oid
                 /\ \A l \in DOMAIN d.assigned :
                       (d.assigned[l].kind = "schema" /\ d.assigned[l].at # SchemaAt(d, k)
                        /\ d.assigned[l].oid > d.assigned[k].oid) => l > k
        /\ r = "pg_class" =>
              \A j \in DOMAIN d.rows :
                  j > 1 => d.rows[j - 1].oid < d.rows[j].oid

\* A pg_class batch of two schemas with a table each.
C22_Witness ==
    \E d \in Items("pg_class") :
        /\ Len(d.rows) >= 2
        /\ \E j, k, l \in DOMAIN d.assigned :
              /\ j < k /\ k < l
              /\ d.assigned[j].kind = "schema"
              /\ d.assigned[k].kind = "table"
              /\ d.assigned[l].kind = "schema"

\* C23: when the catalog was not changed since the start (so not between or
\* during a pg_namespace fetch and a pg_class fetch), no pg_class row has a
\* relnamespace other than the oid pg_namespace reported for the schema of
\* the row's table.
C23_NoMismatchWithoutMutation ==
    mutations = 0 =>
        \A n \in Items("pg_namespace"), c \in Items("pg_class") :
            (n.kind = "batch" /\ c.kind = "batch") =>
                \A k \in DOMAIN c.rows :
                    \A oid \in NamespaceOidsOf(n, << c.origin[k][1], c.origin[k][2] >>) :
                        oid = c.rows[k].relnamespace

\* C24: streams of different relations share no state: under every
\* interleaving of their steps over an unchanged catalog each stream yields
\* the item its get_data yields when it runs alone over that catalog, and a
\* stream that fails at a lookup takes nothing from and adds nothing to the
\* relation of a stream in flight next to it.
C24_InterleavingIsIsolated ==
    \A r \in Relations : \A d \in Items(r) :
        d.clean =>
            /\ d.kind = GetData(r, d.snapshot).kind
            /\ d.rows = GetData(r, d.snapshot).rows

\* Three streams at once: pg_class has failed at a lookup, pg_namespace has
\* yielded its batch, pg_attribute is in its walk.
C24_Witness ==
    /\ task["pg_class"].pc = "yielded"
    /\ \E d \in Items("pg_class") : d.kind = "error" /\ d.clean
    /\ task["pg_namespace"].pc = "yielded"
    /\ \E d \in Items("pg_namespace") :
          d.kind = "batch" /\ d.clean /\ Len(d.rows) >= 4
    /\ task["pg_attribute"].pc = "table"
    /\ task["pg_attribute"].clean
    /\ task["pg_attribute"].assigned # <<>>

\* a comes before b in traversal order: catalog, then schema, then table.
Before(a, b) ==
    \/ a[1] < b[1]
    \/ a[1] = b[1] /\ a[2] < b[2]
    \/ a[1] = b[1] /\ a[2] = b[2] /\ a[3] < b[3]

\* The tables fetch t has looked up and found, in the order of its lookups.
LookedUp(t) ==
    SelectSeq(t.assigned, LAMBDA e : e.kind = "table" /\ e.at[3] # 0)

\* C25: within one pg_class or pg_attribute fetch the table lookups are
\* called one at a time in traversal order (catalog, then schema, then
\* table): a lookup is called only when no lookup of the fetch is
\* outstanding, it is the lookup of the next name of the walk, every table
\* looked up before comes before it in that order, and never are two
\* lookups of one fetch outstanding.
C25_LookupsOneAtATime ==
    [][\A r \in Walkers :
          /\ Len(task'[r].outstanding) <= 1
          /\ (task'[r].outstanding # <<>> /\ task[r].outstanding # task'[r].outstanding) =>
                /\ task[r].outstanding = <<>>
                /\ task'[r].outstanding = << Head(task[r].table_names) >>
          /\ LET done == LookedUp(task'[r])
             IN  \A j, k \in DOMAIN done : j < k => Before(done[j].at, done[k].at)
      ]_vars

\* The lookup of the second table of a schema is outstanding, the first has
\* been answered with the table.
C25_Witness ==
    \E r \in Walkers :
        /\ task[r].outstanding # <<>>
        /\ LookedUp(task[r]) # <<>>
        /\ LookedUp(task[r])[Len(LookedUp(task[r]))].at[2] = task[r].schema

\* C26: over an unchanged catalog pg_class and pg_attribute agree on the
\* identity of the tables: every attrelid is the oid of the pg_class row of
\* the same table, every pg_class row with relnatts = N > 0 has exactly N
\* pg_attribute rows with its oid, and no pg_attribute row has an oid that
\* pg_class does not have.
C26_ClassAndAttributeAgree ==
    \A c \in CleanBatches("pg_class"), a \in CleanBatches("pg_attribute") :
        c.snapshot = a.snapshot =>
            /\ \A j \in DOMAIN a.rows :
                  \E k \in DOMAIN c.rows :
                      /\ c.rows[k].oid = a.rows[j].attrelid
                      /\ c.origin[k] = a.origin[j]
            /\ \A k \in DOMAIN c.rows :
                  c.rows[k].relnatts > 0 =>
                      Cardinality({j \in DOMAIN a.rows :
                                      a.rows[j].attrelid = c.rows[k].oid})
                          = c.rows[k].relnatts

\* The number of entries of the given kind among the first n oids handed out.
CountOf(assigned, kind, n) ==
    Cardinality({k \in 1..n : assigned[k].kind = kind})

\* The oids of the rows of a pg_class or pg_attribute task.
RowOids(r, t) ==
    {IF r = "pg_class" THEN t.rows[j].oid ELSE t.rows[j].attrelid : j \in DOMAIN t.rows}

\* C27: in a pg_class or pg_attribute fetch a listed table name that
\* resolves to none takes one oid and adds no row; a schema name that
\* resolves to none takes no oid and none of its tables is visited; so the
\* oid of a table is 10000 + (the resolved schemas visited up to and
\* including its own) + (the table names listed before it in resolved
\* schemas), resolved or not.
C27_NoneLookupsAndOids ==
    [][\A r \in Walkers :
          /\ Len(task'[r].missed) > Len(task[r].missed) =>
                IF task'[r].missed[Len(task'[r].missed)].kind = "table"
                THEN /\ task'[r].next_oid = task[r].next_oid + 1
                     /\ Len(task'[r].assigned) = Len(task[r].assigned) + 1
                     /\ task'[r].assigned[Len(task'[r].assigned)].oid = task[r].next_oid
                     /\ task'[r].rows = task[r].rows
                     /\ task[r].next_oid \notin RowOids(r, task'[r])
                ELSE /\ task'[r].next_oid = task[r].next_oid
                     /\ task'[r].assigned = task[r].assigned
                     /\ task'[r].rows = task[r].rows
                     /\ task'[r].table_names = <<>>
                     /\ task'[r].pc # "table"
          /\ \A k \in DOMAIN task'[r].assigned :
                task'[r].assigned[k].kind = "table" =>
                    task'[r].assigned[k].oid =
                        10000 + CountOf(task'[r].assigned, "schema", k)
                              + CountOf(task'[r].assigned, "table", k - 1)
          /\ \A o \in RowOids(r, task'[r]) :
                \E k \in DOMAIN task'[r].assigned :
                    /\ task'[r].assigned[k].kind = "table"
                    /\ task'[r].assigned[k].at[3] # 0
                    /\ task'[r].assigned[k].oid = o
      ]_vars

\* A batch in which a table name resolved to none and a table listed after
\* it has a row.
C27_Witness ==
    \E r \in Walkers : \E d \in Items(r) :
        /\ d.kind = "batch"
        /\ \E j, k \in DOMAIN d.assigned :
              /\ j < k
              /\ d.assigned[j].kind = "table" /\ d.assigned[j].at[3] = 0
              /\ d.assigned[k].kind = "table" /\ d.assigned[k].at[3] # 0

\* The seven relation names, character by character.
SevenNames ==
    << << "p", "g", "_", "t", "y", "p", "e" >>,
       << "p", "g", "_", "c", "l", "a", "s", "s" >>,
       << "p", "g", "_", "a", "t", "t", "r", "i", "b", "u", "t", "e" >>,
       << "p", "g", "_", "n", "a", "m", "e", "s", "p", "a", "c", "e" >>,
       << "p", "g", "_", "p", "r", "o", "c" >>,
       << "p", "g", "_", "d", "a", "t", "a", "b", "a", "s", "e" >>,
       << "p", "g", "_", "a", "m" >> >>

\* a and b are the same up to the case of their ASCII letters.
SameIgnoringAsciiCase(a, b) ==
    /\ Len(a) = Len(b)
    /\ \A k \in DOMAIN a :
          \/ a[k] = b[k]
          \/ \E i \in DOMAIN UpperCase :
                {a[k], b[k]} = {UpperCase[i], LowerCase[i]}

\* The relations a name stands for, by position in SevenNames.
NamedBy(name) ==
    {i \in DOMAIN SevenNames : SameIgnoringAsciiCase(name, SevenNames[i])}

\* C28: the pg_catalog schema provider agrees with itself on every name:
\* table_names returns the seven names; table(name) returns a table exactly
\* when table_exist(name) is true, which is exactly when the name is one of
\* the seven up to the case of its ASCII letters; every other name gives
\* none, without an error.
C28_ProviderIsSelfConsistent ==
    /\ session.call.fn = "table_names" => session.call.result = SevenNames
    /\ session.call.fn = "table_exist" =>
          session.call.result = (NamedBy(session.call.name) # {})
    /\ session.call.fn = "table" =>
          IF NamedBy(session.call.name) = {}
          THEN session.call.result = [kind |-> "none"]
          ELSE /\ session.call.result.kind = "some"
               /\ \A i \in NamedBy(session.call.name) :
                     session.call.result.table = PgCatalogTables[i]

\* table was called with a name in capitals and returned pg_namespace.
C28_Witness ==
    /\ session.call.fn = "table"
    /\ session.call.name # <<>>
    /\ session.call.name[1] = "P"
    /\ session.call.result.kind = "some"
    /\ session.call.result.table = TPgNamespace

\* C29: pg_proc and the registered scalar functions are the same set: the
\* pronames are the names of the ten functions setup_pg_catalog registers,
\* each once, the oids are pairwise distinct, and pronargs is the number of
\* arguments of the registered signature (1 for current_schemas and
\* pg_encoding_to_char, 0 for the others).
C29_ProcRowsAreTheUdfs ==
    session.call.fn = "pg_proc" =>
        LET rows == session.call.rows
        IN  /\ {rows[k].proname : k \in DOMAIN rows} = session.udfs
            /\ Cardinality(session.udfs) = 10
            /\ Len(rows) = 10
            /\ \A j, k \in DOMAIN rows :
                  j # k => (rows[j].proname # rows[k].proname /\ rows[j].oid # rows[k].oid)
            /\ \A k \in DOMAIN rows :
                  /\ rows[k].pronargs = Len(UdfArgs(rows[k].proname))
                  /\ rows[k].pronargs =
                        (IF rows[k].proname \in {"current_schemas", "pg_encoding_to_char"}
                         THEN 1 ELSE 0)

\* pg_proc was queried in a session set up by setup_pg_catalog.
C29_Witness ==
    /\ session.call.fn = "pg_proc"
    /\ "current_schemas" \in session.udfs
    /\ \E k \in DOMAIN session.call.rows :
          session.call.rows[k].proname = "current_schemas"

\* C30: current_schemas over an argument column of k >= 1 rows returns one
\* list per row, the list of row i following the argument of row i; the
\* column (false, true) gives ["public"] for the first row and ["public",
\* "information_schema", "pg_catalog"] for the second.
C30_OneListPerRow ==
    (/\ session.call.fn = "current_schemas"
     /\ Len(session.call.input) >= 1
     /\ \A i \in DOMAIN session.call.input : session.call.input[i].valid)
    => /\ session.call.result.kind = "array"
       /\ Len(session.call.result.lists) = Len(session.call.input)
       /\ \A i \in DOMAIN session.call.input :
             session.call.result.lists[i] =
                 (IF session.call.input[i].value
                  THEN << "public", "information_schema", "pg_catalog" >>
                  ELSE << "public" >>)

====
